---------------------------- MODULE Spec2Model ----------------------------
(***************************************************************************)
(* A model of scshitole/chatf5: a natural-language front end to the read   *)
(* side of a BIG-IP management API.                                        *)
(*                                                                         *)
(*   bigip/client.go    NewClient (probe worker, result channel, timer),   *)
(*                      GetWAFPolicies, GetWAFPolicyDetails,               *)
(*                      GetVirtualServers, GetPools, GetNodes              *)
(*   chat/interface.go  ProcessQuery, containsAny, executeOperation        *)
(*   llm/openai.go      ProcessPrompt                                      *)
(*   main.go            LoadConfig, main (test command, interactive loop)  *)
(*                                                                         *)
(* Texts are TLA+ strings and are handled as the Go code handles them:     *)
(* strings.Contains is substring search, strings.ToLower maps characters,  *)
(* strings.Fields and strings.TrimSpace cut at white space.  The device    *)
(* and the language model are the environment: what they answer is chosen  *)
(* at the moment of the call.                                              *)
(***************************************************************************)
EXTENDS Integers, Sequences, FiniteSets, TLC

VARIABLES
    \* ---- main.go
    mainPc,            \* position of main
    env,               \* the four environment variables
    cfg,               \* the configuration LoadConfig returned
    stdinEOF,          \* standard input is exhausted
    input,             \* what ReadString returned, trimmed when read without error
    printed,           \* what the last print of a query result showed
    \* ---- chat/interface.go, llm/openai.go
    qpc,               \* position of ProcessQuery / executeOperation
    query,             \* originalQuery
    llmResponse,       \* the model's description
    llmCalls,          \* model calls made for the current query
    branch,            \* the branch executeOperation took
    matched,           \* the categories whose keywords the description held
    clientCalls,       \* device-client operations called for the current query
    qret,              \* what ProcessQuery returned
    \* ---- bigip/client.go: the read operations
    op,                \* the operation in progress
    policyName,        \* policyName of GetWAFPolicyDetails, policyID of GetPolicySignatureStatus
    retry,             \* the loop counter of the retry loops
    lastErr,           \* lastErr of the retry loops, err of the other operations
    policiesResp,      \* policies / policiesResp: Items of the decoded response
    delays,            \* delays slept by the operation, in seconds
    requests,          \* requests the operation issued to the device
    lastReply,         \* how the device answered the latest request
    pools,             \* GetPools: the device's pool list
    poolList,          \* GetPools: poolList
    poolMembers,       \* GetPools: the map name -> member list
    memberFetch,       \* GetPools: the answer to each member fetch so far
    ret,               \* what the operation returned
    \* ---- bigip/client.go: NewClient
    ctor,              \* position of the constructor
    wpc,               \* position of the probe goroutine
    wretry,            \* its loop counter
    wLastErr,          \* its lastErr
    wakeAt,            \* end of its time.Sleep
    callStart,         \* start of its call in flight
    clock,             \* seconds since the constructor began to wait
    connectionStatus,  \* the result channel's buffer
    ctorErr,           \* the error NewClient returned
    probeCalls,        \* VirtualServers() calls the goroutine issued
    wdelays,           \* delays it slept, in seconds
    \* ---- the BIG-IP system
    device,            \* its configuration
    \* ---- the standard logger
    logged             \* the policy fields logged since the query or call began

mvars == <<mainPc, env, cfg, input, printed, stdinEOF>>
qvars == <<qpc, query, llmResponse, llmCalls, branch, matched, clientCalls, qret>>
cvars == <<op, policyName, retry, lastErr, policiesResp, delays, requests,
           lastReply, pools, poolList, poolMembers, memberFetch, ret>>
nvars == <<ctor, wpc, wretry, wLastErr, wakeAt, callStart, clock,
           connectionStatus, ctorErr, probeCalls, wdelays>>
vars == <<mvars, qvars, cvars, nvars, device, logged>>

---------------------------------------------------------------------------
(* Bounds of the model.                                                    *)

\* phrases a model description is made of
MaxPhrases == 2
\* items in a device answer (policies, virtual servers, nodes)
MaxItems == 2
\* pools in the device's pool list
MaxPools == 2
\* longest device call of the probe, in steps of baseDelay
MaxCallSteps == 4

---------------------------------------------------------------------------
(* Program constants.                                                      *)

maxRetries == 3
baseDelay == 5
maxDelay == 30
connectTimeout == 60
chanCapacity == 1

---------------------------------------------------------------------------
(* Text: the functions of package strings the program uses.                *)

\* strings.Contains
Contains(s, substr) ==
    \E i \in 1..(Len(s) - Len(substr) + 1) :
        SubSeq(s, i, i + Len(substr) - 1) = substr

LowerChar(c) ==
    CASE c = "A" -> "a" [] c = "B" -> "b" [] c = "C" -> "c" [] c = "D" -> "d"
      [] c = "E" -> "e" [] c = "F" -> "f" [] c = "G" -> "g" [] c = "H" -> "h"
      [] c = "I" -> "i" [] c = "J" -> "j" [] c = "K" -> "k" [] c = "L" -> "l"
      [] c = "M" -> "m" [] c = "N" -> "n" [] c = "O" -> "o" [] c = "P" -> "p"
      [] c = "Q" -> "q" [] c = "R" -> "r" [] c = "S" -> "s" [] c = "T" -> "t"
      [] c = "U" -> "u" [] c = "V" -> "v" [] c = "W" -> "w" [] c = "X" -> "x"
      [] c = "Y" -> "y" [] c = "Z" -> "z" [] OTHER -> c

\* strings.ToLower
RECURSIVE ToLower(_)
ToLower(s) ==
    IF Len(s) = 0 THEN ""
    ELSE LowerChar(SubSeq(s, 1, 1)) \o ToLower(SubSeq(s, 2, Len(s)))

IsSpace(c) == c \in {" ", "\t", "\n", "\r"}

RECURSIVE TrimLeft(_)
TrimLeft(s) ==
    IF Len(s) > 0 /\ IsSpace(SubSeq(s, 1, 1))
    THEN TrimLeft(SubSeq(s, 2, Len(s))) ELSE s

RECURSIVE TrimRight(_)
TrimRight(s) ==
    IF Len(s) > 0 /\ IsSpace(SubSeq(s, Len(s), Len(s)))
    THEN TrimRight(SubSeq(s, 1, Len(s) - 1)) ELSE s

\* strings.TrimSpace
TrimSpace(s) == TrimRight(TrimLeft(s))

\* the index of the first white-space character of s, or Len(s) + 1
RECURSIVE FirstSpace(_, _)
FirstSpace(s, i) ==
    IF i > Len(s) \/ IsSpace(SubSeq(s, i, i)) THEN i ELSE FirstSpace(s, i + 1)

\* strings.Fields: the maximal runs of non-white-space characters
RECURSIVE Fields(_)
Fields(s) ==
    LET t == TrimLeft(s)
        e == FirstSpace(t, 1)
    IN  IF Len(t) = 0 THEN <<>>
        ELSE <<SubSeq(t, 1, e - 1)>> \o Fields(SubSeq(t, e, Len(t)))

\* a faulty containsAny: the text must hold every phrase
containsAll(text, phrases) == \A phrase \in phrases : Contains(text, phrase)

\* containsAny of chat/interface.go
containsAny(text, phrases) == \E phrase \in phrases : Contains(text, phrase)


---------------------------------------------------------------------------
(* The device.  Error texts are what the REST library reports; the         *)
(* program only ever looks for substrings in them.                         *)

DeviceErrors ==
    { "HTTP 401 :: Unauthorized",
      "HTTP 401 :: user is unauthorized",
      "HTTP 404 :: policy not found",
      "HTTP 403 :: Forbidden",
      "HTTP 404 :: Not Found",
      "HTTP 409 :: Conflict",
      "dial tcp 10.0.0.1:443: connect: connection refused",
      "dial tcp 10.0.0.1:4043: connect: connection refused",
      "x509: certificate signed by unknown authority",
      "net/http: TLS handshake timeout",
      "dial tcp: lookup bigip: no such host",
      "unexpected EOF" }

\* the error of json.Unmarshal on a body that is not the expected JSON
JSONError == "invalid character '<' looking for beginning of value"

\* ASM policies as the device reports them (ASMPolicy: WAFPolicy plus more)
PolDemo ==
    [Name |-> "demo", FullPath |-> "/Common/demo", ID |-> "id-demo",
     Description |-> "demo policy", Active |-> TRUE, Type |-> "security",
     EnforcementMode |-> "blocking", Kind |-> "tm:asm:policies:policystate",
     SelfLink |-> "https://localhost/mgmt/tm/asm/policies/id-demo",
     SignatureStaging |-> TRUE, VirtualServers |-> <<"/Common/VS_WAF">>,
     SignatureSetings |-> [signatureStaging |-> "true"],
     BlockingMode |-> "enabled", PlaceSignatures |-> TRUE,
     ManualLock |-> FALSE]
PolVsWaf ==
    [Name |-> "VS_WAF", FullPath |-> "/Common/VS_WAF", ID |-> "id-vswaf",
     Description |-> "", Active |-> FALSE, Type |-> "",
     EnforcementMode |-> "transparent", Kind |-> "tm:asm:policies:policystate",
     SelfLink |-> "https://localhost/mgmt/tm/asm/policies/id-vswaf",
     SignatureStaging |-> FALSE, VirtualServers |-> <<>>,
     SignatureSetings |-> [signatureStaging |-> "false"],
     BlockingMode |-> "", PlaceSignatures |-> FALSE,
     ManualLock |-> TRUE]
DevicePolicies == {PolDemo, PolVsWaf}

VsWaf == [Name |-> "VS_WAF", Destination |-> "/Common/10.1.1.101:443",
          Pool |-> "/Common/VS_WAF", Enabled |-> TRUE,
          Description |-> "protected site"]
VsApp == [Name |-> "Vsapp1", Destination |-> "/Common/10.0.0.200:8080",
          Pool |-> "/Common/app1pool", Enabled |-> FALSE,
          Description |-> ""]
Vs200 == [Name |-> "vs_200_1_1_1_8080", Destination |-> "/Common/200.1.1.1:8080",
          Pool |-> "", Enabled |-> TRUE, Description |-> ""]
DeviceVirtualServers == {VsWaf, VsApp, Vs200}

NodeA == [Name |-> "node1", Address |-> "10.0.0.11", State |-> "up"]
NodeB == [Name |-> "node2", Address |-> "10.0.0.12", State |-> "down"]
DeviceNodes == {NodeA, NodeB}

\* signature statuses, with the fields FormatSignatureStatus reads
SigSql ==
    [Name |-> "SQL-INJ", SignatureID |-> "200002147", Enabled |-> TRUE,
     Staging |-> FALSE, BlockingEnabled |-> TRUE, SignatureType |-> "request",
     AccuracyLevel |-> "high", RiskLevel |-> "high",
     Description |-> "SQL injection attempt"]
SigXss ==
    [Name |-> "XSS", SignatureID |-> "200001475", Enabled |-> FALSE,
     Staging |-> TRUE, BlockingEnabled |-> FALSE, SignatureType |-> "",
     AccuracyLevel |-> "", RiskLevel |-> "", Description |-> ""]
DeviceSignatures == {SigSql, SigXss}

\* pools: a name is unique within its partition only
PoolWeb == [Name |-> "web", FullPath |-> "/Common/web",
            LoadBalancingMode |-> "round-robin", Monitor |-> "/Common/http",
            Description |-> "web servers"]
PoolApp == [Name |-> "app", FullPath |-> "/Common/app",
            LoadBalancingMode |-> "least-connections-member", Monitor |-> "",
            Description |-> ""]
PoolTenantWeb == [Name |-> "web", FullPath |-> "/Tenant/web",
                  LoadBalancingMode |-> "round-robin", Monitor |-> "/Common/tcp",
                  Description |-> ""]
DevicePools == {PoolWeb, PoolApp, PoolTenantWeb}

\* member lists a member fetch may return (FullPath of each member)
MemberLists ==
    { <<>>, <<"/Common/10.0.0.11:80">>,
      <<"/Common/10.0.0.11:80", "/Common/10.0.0.12:80">> }

\* the lists of at most n elements of S
ListsOf(S, n) == UNION {[1..k -> S] : k \in 0..n}

\* the lists of at most n elements of S, none twice
DistinctListsOf(S, n) ==
    {l \in ListsOf(S, n) : \A i, j \in 1..Len(l) : l[i] = l[j] => i = j}

\* What c.BigIP.APICall returns for a policy request: an error, or a body
\* that is the expected JSON with its items, or a body that is not.
APIReplies ==
    {[err |-> e, valid |-> FALSE, items |-> <<>>] : e \in DeviceErrors}
    \cup {[err |-> "", valid |-> FALSE, items |-> <<>>]}
    \cup {[err |-> "", valid |-> TRUE, items |-> l] :
            l \in ListsOf(DevicePolicies, MaxItems)}

\* What a typed call of the REST library returns: an error or the entities.
SDKReplies(lists) ==
    {[err |-> e, items |-> <<>>] : e \in DeviceErrors}
    \cup {[err |-> "", items |-> l] : l \in lists}

\* a faulty request: it writes
PostRequest(url) == [Method |-> "POST", URL |-> url]

GetRequest(url) == [Method |-> "GET", URL |-> url]

\* a signature status as the device reports it: the fields of SignatureStatus
SignatureStatusOf(policy, sig) ==
    [ID |-> policy.ID \o "/" \o sig.SignatureID,
     SignatureID |-> sig.SignatureID, SignatureName |-> sig.Name,
     Enabled |-> sig.Enabled, PerformStaging |-> sig.Staging,
     Block |-> sig.BlockingEnabled, Description |-> sig.Description,
     SignatureType |-> sig.SignatureType, AccuracyLevel |-> sig.AccuracyLevel,
     RiskLevel |-> sig.RiskLevel, PolicyName |-> policy.Name, Context |-> ""]

\* the call the connectivity probe makes: VirtualServers()
ProbeRequest == GetRequest("mgmt/tm/ltm/virtual")

\* The configurations the device may hold: the signature statuses of each
\* policy, by policy ID, and the generation, which every change raises.
DeviceConfigs ==
    { [signatures |-> (PolDemo.ID :> <<SignatureStatusOf(PolDemo, SigSql)>> @@
                       PolVsWaf.ID :> <<SignatureStatusOf(PolVsWaf, SigXss)>>),
       generation |-> 0],
      [signatures |-> (PolDemo.ID :> << SignatureStatusOf(PolDemo, SigSql),
                                        SignatureStatusOf(PolDemo, SigXss) >> @@
                       PolVsWaf.ID :> <<>>),
       generation |-> 0] }

\* the signature-statuses collection of a configuration: every policy's
SignatureStatuses(config) ==
    config.signatures[PolDemo.ID] \o config.signatures[PolVsWaf.ID]

\* What c.BigIP.APICall returns for the signature-statuses request: an
\* error, a body that is not the expected JSON, or the collection.
SignatureReplies(config) ==
    {[err |-> e, valid |-> FALSE, items |-> <<>>] : e \in DeviceErrors}
    \cup {[err |-> "", valid |-> FALSE, items |-> <<>>]}
    \cup {[err |-> "", valid |-> TRUE, items |-> SignatureStatuses(config)]}

\* the configuration after the device has served a request: a GET reads
Serve(config, request) ==
    IF request.Method = "GET" THEN config
    ELSE [config EXCEPT !.generation = 1]

---------------------------------------------------------------------------
(* bigip/client.go: the retry loops.                                       *)

\* a faulty backoff: the multiplier is one power of two too high
BackoffNoShift(r) ==
    LET delay == baseDelay * (2 ^ r)
    IN  IF delay > maxDelay THEN maxDelay ELSE delay

\* the delay slept before the attempt with loop counter r > 0
Backoff(r) ==
    LET backoffMultiplier == 2 ^ (r - 1)
        delay == baseDelay * backoffMultiplier
    IN  IF delay > maxDelay THEN maxDelay ELSE delay

\* a faulty switch: the texts are tested before the status codes
ErrorCaseTextFirst(errStr) ==
    LET l == ToLower(errStr)
    IN  IF Contains(l, "connection") THEN "connection"
        ELSE IF Contains(l, "certificate") THEN "certificate"
        ELSE IF Contains(l, "timeout") THEN "timeout"
        ELSE IF Contains(l, "401") THEN "401"
        ELSE IF Contains(l, "403") THEN "403"
        ELSE IF Contains(l, "404") THEN "404"
        ELSE IF Contains(l, "409") THEN "409"
        ELSE "default"

\* the case of the switch an error text falls into: the first that matches
ErrorCase(errStr) ==
    LET l == ToLower(errStr)
    IN  IF Contains(l, "401") THEN "401"
        ELSE IF Contains(l, "403") THEN "403"
        ELSE IF Contains(l, "404") THEN "404"
        ELSE IF Contains(l, "409") THEN "409"
        ELSE IF Contains(l, "connection") THEN "connection"
        ELSE IF Contains(l, "certificate") THEN "certificate"
        ELSE IF Contains(l, "timeout") THEN "timeout"
        ELSE "default"

\* a faulty switch: the 404 case is left to be retried
ShouldRetryNotFound(errStr) == ErrorCase(errStr) \notin {"401", "403"}

\* shouldRetry as the switch leaves it
ShouldRetry(errStr) ==
    ErrorCase(errStr) \in {"409", "connection", "certificate", "timeout", "default"}

\* a faulty conversion: the full path is taken from the name
ToWAFPolicyByName(policy) ==
    [Name |-> policy.Name, FullPath |-> policy.Name, ID |-> policy.ID,
     Description |-> policy.Description, Active |-> policy.Active,
     Type |-> policy.Type, EnforcementMode |-> policy.EnforcementMode,
     SignatureStaging |-> policy.SignatureStaging,
     VirtualServers |-> policy.VirtualServers,
     BlockingMode |-> policy.BlockingMode,
     PlaceSignatures |-> policy.PlaceSignatures,
     SignatureSetings |-> policy.SignatureSetings,
     Kind |-> policy.Kind, SelfLink |-> policy.SelfLink]

\* the fields an ASMPolicy hands to the WAFPolicy built from it
ToWAFPolicy(policy) ==
    [Name |-> policy.Name, FullPath |-> policy.FullPath, ID |-> policy.ID,
     Description |-> policy.Description, Active |-> policy.Active,
     Type |-> policy.Type, EnforcementMode |-> policy.EnforcementMode,
     SignatureStaging |-> policy.SignatureStaging,
     VirtualServers |-> policy.VirtualServers,
     BlockingMode |-> policy.BlockingMode,
     PlaceSignatures |-> policy.PlaceSignatures,
     SignatureSetings |-> policy.SignatureSetings,
     Kind |-> policy.Kind, SelfLink |-> policy.SelfLink]

\* The log lines that print fields of a policy: who logs, the policy's name
\* and the fields printed for it.
LogEntry(by, policy, fields) == [by |-> by, policy |-> policy.Name, fields |-> fields]

\* a faulty loop: only the first policy is logged
LogFirst(by, policies, fields) ==
    IF Len(policies) = 0 THEN <<>> ELSE <<LogEntry(by, policies[1], fields)>>

\* the lines a loop over policies logs, one entry for each policy in turn
LogEach(by, policies, fields) ==
    [k \in 1..Len(policies) |-> LogEntry(by, policies[k], fields)]

NoRet == [done |-> FALSE, err |-> "", val |-> <<>>]
Return(err, val) == [done |-> TRUE, err |-> err, val |-> val]

NoPoolMembers == [n \in {} |-> <<>>]

\* the state of the client with no operation in progress
ClientIdle ==
    /\ op = "none" /\ policyName = "" /\ retry = 0 /\ lastErr = ""
    /\ policiesResp = <<>> /\ delays = <<>> /\ requests = <<>>
    /\ lastReply = "none" /\ pools = <<>> /\ poolList = <<>>
    /\ poolMembers = NoPoolMembers /\ memberFetch = <<>> /\ ret = NoRet

\* entering an operation: its locals as declared
Enter(name, arg, r) ==
    /\ op' = name /\ policyName' = arg /\ retry' = 0 /\ lastErr' = ""
    /\ policiesResp' = <<>> /\ delays' = <<>> /\ requests' = <<>>
    /\ lastReply' = "none" /\ pools' = <<>> /\ poolList' = <<>>
    /\ poolMembers' = NoPoolMembers /\ memberFetch' = <<>> /\ ret' = r

\* the frame of a returned operation is dropped
Leave == Enter("none", "", NoRet)

\* GetWAFPolicies after its loop: every item becomes a WAFPolicy
WAFPoliciesResult(items) ==
    Return("", [i \in 1..Len(items) |-> ToWAFPolicy(items[i])])

\* One iteration of GetWAFPolicies' loop, and what follows the loop when
\* this iteration ends it.
WAFPoliciesAttempt ==
    /\ op = "GetWAFPolicies" /\ ~ret.done /\ retry < maxRetries
    /\ delays' = IF retry > 0 THEN Append(delays, Backoff(retry)) ELSE delays
    /\ requests' = Append(requests, GetRequest("mgmt/tm/asm/policies"))
    /\ \E reply \in APIReplies :
        IF reply.err = ""
        THEN IF reply.valid
             THEN \* parsed: break
                  /\ policiesResp' = reply.items
                  /\ lastReply' = "parsed"
                  /\ ret' = WAFPoliciesResult(reply.items)
                  /\ UNCHANGED <<retry, lastErr>>
             ELSE \* not parsed: continue
                  /\ lastErr' = "JSON parsing error: " \o JSONError
                  /\ lastReply' = "malformed"
                  /\ retry' = retry + 1
                  /\ ret' = IF retry + 1 < maxRetries THEN ret
                            ELSE WAFPoliciesResult(policiesResp)
                  /\ UNCHANGED policiesResp
        ELSE /\ lastErr' = reply.err
             /\ lastReply' = "error"
             /\ IF ~ShouldRetry(reply.err) \/ retry = maxRetries - 1
                THEN /\ ret' = Return("failed to get WAF policies: " \o reply.err, <<>>)
                     /\ retry' = retry
                ELSE /\ retry' = retry + 1
                     /\ ret' = ret
             /\ UNCHANGED policiesResp
    /\ UNCHANGED <<op, policyName, pools, poolList, poolMembers, memberFetch>>
    /\ UNCHANGED <<mvars, qvars, nvars>>
    /\ device' = Serve(device, requests'[Len(requests')])
    /\ logged' = IF ret'.done /\ ret'.err = ""
                 THEN logged \o LogEach("client", ret'.val,
                                  {"Name", "ID", "Type", "EnforcementMode"})
                 ELSE logged

\* a faulty GetWAFPolicyDetails: the name is not checked
CallGetWAFPolicyDetailsUnchecked(name) == Enter("GetWAFPolicyDetails", name, NoRet)

\* GetWAFPolicyDetails up to its loop
CallGetWAFPolicyDetails(name) ==
    IF name = ""
    THEN Enter("GetWAFPolicyDetails", name, Return("policy name cannot be empty", <<>>))
    ELSE Enter("GetWAFPolicyDetails", name, NoRet)

\* a faulty GetWAFPolicyDetails: no item is no error
WAFPolicyDetailsResultUnchecked(name, items) ==
    IF Len(items) = 0
    THEN Return("", <<>>)
    ELSE Return("", ToWAFPolicy(items[1]))

\* GetWAFPolicyDetails after its loop
WAFPolicyDetailsResult(name, items) ==
    IF Len(items) = 0
    THEN Return("WAF policy '" \o name \o "' not found", <<>>)
    ELSE Return("", ToWAFPolicy(items[1]))

\* One iteration of GetWAFPolicyDetails' loop, and what follows the loop
\* when this iteration ends it.
WAFPolicyDetailsAttempt ==
    /\ op = "GetWAFPolicyDetails" /\ ~ret.done /\ retry < maxRetries
    /\ delays' = IF retry > 0 THEN Append(delays, Backoff(retry)) ELSE delays
    /\ requests' = Append(requests,
            GetRequest("mgmt/tm/asm/policies?$filter=name+eq+" \o policyName))
    /\ \E reply \in APIReplies :
        IF reply.err = ""
        THEN IF reply.valid
             THEN /\ policiesResp' = reply.items
                  /\ lastReply' = "parsed"
                  /\ ret' = WAFPolicyDetailsResult(policyName, reply.items)
                  /\ UNCHANGED <<retry, lastErr>>
             ELSE /\ lastErr' = "JSON parsing error: " \o JSONError
                  /\ lastReply' = "malformed"
                  /\ retry' = retry + 1
                  /\ ret' = IF retry + 1 < maxRetries THEN ret
                            ELSE WAFPolicyDetailsResult(policyName, policiesResp)
                  /\ UNCHANGED policiesResp
        ELSE /\ lastErr' = reply.err
             /\ lastReply' = "error"
             /\ IF ~ShouldRetry(reply.err) \/ retry = maxRetries - 1
                THEN /\ ret' = Return("failed to get WAF policy details: " \o reply.err, <<>>)
                     /\ retry' = retry
                ELSE /\ retry' = retry + 1
                     /\ ret' = ret
             /\ UNCHANGED policiesResp
    /\ UNCHANGED <<op, policyName, pools, poolList, poolMembers, memberFetch>>
    /\ UNCHANGED <<mvars, qvars, nvars>>
    /\ device' = Serve(device, requests'[Len(requests')])
    /\ logged' = IF ret'.done /\ ret'.err = "" /\ Len(policiesResp') > 0
                 THEN Append(logged, LogEntry("client", ret'.val,
                                  {"Name", "ID", "Type", "Active"}))
                 ELSE logged

---------------------------------------------------------------------------
(* bigip/client.go: the single-call read operations.                       *)

\* the error GetVirtualServers returns for an error text: first match
VirtualServersError(errStr) ==
    LET l == ToLower(errStr)
    IN  IF Contains(l, "unauthorized")
        THEN "authentication failed: please verify credentials"
        ELSE IF Contains(l, "connection")
        THEN "connection error: unable to reach BIG-IP"
        ELSE IF Contains(l, "certificate")
        THEN "TLS certificate error: certificate validation failed"
        ELSE IF Contains(l, "no such host")
        THEN "DNS error: unable to resolve BIG-IP hostname"
        ELSE IF Contains(l, "timeout")
        THEN "timeout error: request took too long to complete"
        ELSE "API request failed: " \o errStr

GetVirtualServersCall ==
    /\ op = "GetVirtualServers" /\ ~ret.done
    /\ requests' = Append(requests, GetRequest("mgmt/tm/ltm/virtual"))
    /\ \E reply \in SDKReplies(DistinctListsOf(DeviceVirtualServers, MaxItems)) :
        /\ lastReply' = IF reply.err = "" THEN "parsed" ELSE "error"
        /\ lastErr' = reply.err
        /\ ret' = IF reply.err # ""
                  THEN Return(VirtualServersError(reply.err), <<>>)
                  ELSE Return("", reply.items)
    /\ UNCHANGED <<op, policyName, retry, policiesResp, delays,
                   pools, poolList, poolMembers, memberFetch>>
    /\ UNCHANGED <<mvars, qvars, nvars>>
    /\ device' = Serve(device, requests'[Len(requests')])
    /\ UNCHANGED logged

GetNodesCall ==
    /\ op = "GetNodes" /\ ~ret.done
    /\ requests' = Append(requests, GetRequest("mgmt/tm/ltm/node"))
    /\ \E reply \in SDKReplies(DistinctListsOf(DeviceNodes, MaxItems)) :
        /\ lastReply' = IF reply.err = "" THEN "parsed" ELSE "error"
        /\ lastErr' = reply.err
        /\ ret' = IF reply.err # ""
                  THEN Return("failed to get nodes: " \o reply.err, <<>>)
                  ELSE Return("", reply.items)
    /\ UNCHANGED <<op, policyName, retry, policiesResp, delays,
                   pools, poolList, poolMembers, memberFetch>>
    /\ UNCHANGED <<mvars, qvars, nvars>>
    /\ device' = Serve(device, requests'[Len(requests')])
    /\ UNCHANGED logged

---------------------------------------------------------------------------
(* bigip/client.go: GetPools.                                              *)

\* what a lookup in the returned map yields (a missing key yields nil)
MembersOf(members, name) ==
    IF name \in DOMAIN members THEN members[name] ELSE <<>>

\* poolMembers[p.Name] = memberList
PutMembers(members, name, memberList) ==
    [n \in DOMAIN members \cup {name} |->
        IF n = name THEN memberList ELSE members[n]]

\* what GetPools returns after its loop
PoolsResult(list, members) == Return("", [pools |-> list, members |-> members])

\* c.Pools(), up to the loop over the pools
GetPoolsCall ==
    /\ op = "GetPools" /\ ~ret.done /\ lastReply = "none"
    /\ requests' = Append(requests, GetRequest("mgmt/tm/ltm/pool"))
    /\ \E reply \in SDKReplies(DistinctListsOf(DevicePools, MaxPools)) :
        IF reply.err # ""
        THEN /\ lastReply' = "error"
             /\ lastErr' = reply.err
             /\ ret' = Return("failed to get pools: " \o reply.err, <<>>)
             /\ pools' = pools
        ELSE /\ lastReply' = "parsed"
             /\ lastErr' = lastErr
             /\ pools' = reply.items
             /\ ret' = IF Len(reply.items) = 0
                       THEN PoolsResult(<<>>, NoPoolMembers) ELSE ret
    /\ UNCHANGED <<op, policyName, retry, policiesResp, delays,
                   poolList, poolMembers, memberFetch>>
    /\ UNCHANGED <<mvars, qvars, nvars>>
    /\ device' = Serve(device, requests'[Len(requests')])
    /\ UNCHANGED logged

\* One iteration of the loop over the pools: the pool is appended, its
\* members are fetched, and a failed fetch skips the map entry.
GetPoolsMembers ==
    /\ op = "GetPools" /\ ~ret.done /\ lastReply = "parsed"
    /\ Len(poolList) < Len(pools)
    /\ LET p == pools[Len(poolList) + 1]
       IN  /\ poolList' = Append(poolList, p)
           /\ requests' = Append(requests,
                  GetRequest("mgmt/tm/ltm/pool/" \o p.Name \o "/members"))
           /\ \E reply \in SDKReplies(MemberLists) :
                /\ memberFetch' = Append(memberFetch, reply)
                /\ poolMembers' = IF reply.err # "" THEN poolMembers
                                  ELSE PutMembers(poolMembers, p.Name, reply.items)
                /\ ret' = IF Len(poolList) + 1 < Len(pools) THEN ret
                          ELSE PoolsResult(poolList', poolMembers')
    /\ UNCHANGED <<op, policyName, retry, lastErr, policiesResp, delays,
                   lastReply, pools>>
    /\ UNCHANGED <<mvars, qvars, nvars>>
    /\ device' = Serve(device, requests'[Len(requests')])
    /\ UNCHANGED logged

\* GetPolicySignatureStatus(policyID) up to its request
CallGetPolicySignatureStatus(policyID) ==
    IF policyID = ""
    THEN Enter("GetPolicySignatureStatus", policyID,
               Return("policy ID cannot be empty", <<>>))
    ELSE Enter("GetPolicySignatureStatus", policyID, NoRet)

\* GetPolicySignatureStatus from its request on; policyName holds policyID
GetPolicySignatureStatusCall ==
    /\ op = "GetPolicySignatureStatus" /\ ~ret.done
    /\ requests' = Append(requests, GetRequest("mgmt/tm/asm/signature-statuses"))
    /\ \E reply \in SignatureReplies(device) :
        /\ lastErr' = IF reply.err # "" THEN reply.err
                      ELSE IF ~reply.valid THEN JSONError ELSE ""
        /\ lastReply' = IF reply.err # "" THEN "error"
                        ELSE IF ~reply.valid THEN "malformed" ELSE "parsed"
        /\ ret' = IF reply.err # ""
                  THEN Return("failed to get signature status: " \o reply.err, <<>>)
                  ELSE IF ~reply.valid
                  THEN Return("failed to parse signature status: " \o JSONError, <<>>)
                  ELSE Return("", reply.items)
    /\ UNCHANGED <<op, policyName, retry, policiesResp, delays,
                   pools, poolList, poolMembers, memberFetch>>
    /\ UNCHANGED <<mvars, qvars, nvars>>
    /\ device' = Serve(device, requests'[Len(requests')])
    /\ UNCHANGED logged

---------------------------------------------------------------------------
(* bigip/client.go: NewClient.  The probe runs in a goroutine; the         *)
(* constructor waits in a select for its result or for the timer.  Time    *)
(* advances in steps of baseDelay; a sleep ends when its delay has passed  *)
(* and a device call takes at most MaxCallSteps steps.                     *)

NewClientIdle ==
    /\ wpc = "idle" /\ wretry = 0 /\ wLastErr = "" /\ wakeAt = 0
    /\ callStart = 0 /\ clock = 0 /\ connectionStatus = <<>>
    /\ ctorErr = "" /\ probeCalls = 0 /\ wdelays = <<>>

\* the frame of the returned constructor is dropped
NewClientLeave ==
    /\ wpc' = "idle" /\ wretry' = 0 /\ wLastErr' = "" /\ wakeAt' = 0
    /\ callStart' = 0 /\ clock' = 0 /\ connectionStatus' = <<>>
    /\ ctorErr' = "" /\ probeCalls' = 0 /\ wdelays' = <<>>

\* NewClient up to its select: the channel is made, the goroutine starts
\* and issues its first call (no delay precedes the first attempt)
NewClientStart ==
    /\ mainPc = "NewClient" /\ ctor = "none"
    /\ ctor' = "waiting"
    /\ wpc' = "incall" /\ wretry' = 0 /\ wLastErr' = ""
    /\ probeCalls' = 1 /\ callStart' = 0 /\ clock' = 0
    /\ connectionStatus' = <<>> /\ wdelays' = <<>>
    /\ UNCHANGED <<wakeAt, ctorErr>>
    /\ UNCHANGED <<mvars, qvars, cvars>>
    /\ device' = Serve(device, ProbeRequest)
    /\ UNCHANGED logged

\* the end of an attempt that failed: the next one after its delay, or the
\* final error
NextAttempt ==
    IF wretry + 1 < maxRetries
    THEN /\ wretry' = wretry + 1
         /\ wpc' = "sleeping"
         /\ wakeAt' = clock + Backoff(wretry + 1)
         /\ wdelays' = Append(wdelays, Backoff(wretry + 1))
    ELSE /\ wretry' = wretry + 1
         /\ wpc' = "sendErr"
         /\ UNCHANGED <<wakeAt, wdelays>>

\* a faulty probe: every failure is followed by a call at once
ProbeRepeatsAlways(errStr) == TRUE

\* does the probe repeat its call at once, in the same attempt?
ProbeRepeats(errStr) == Contains(ToLower(errStr), "certificate")

\* the call of an attempt returns
WorkerCallReturn ==
    /\ wpc = "incall"
    /\ \E reply \in SDKReplies({<<>>, <<VsWaf>>}) :
        IF reply.err = ""
        THEN /\ wpc' = "sendNil"
             /\ UNCHANGED <<wretry, wLastErr, wakeAt, callStart, probeCalls, wdelays>>
        ELSE /\ wLastErr' = reply.err
             /\ IF ProbeRepeats(reply.err)
                THEN /\ wpc' = "incall2"
                     /\ probeCalls' = probeCalls + 1
                     /\ callStart' = clock
                     /\ UNCHANGED <<wretry, wakeAt, wdelays>>
                ELSE /\ NextAttempt
                     /\ UNCHANGED <<callStart, probeCalls>>
    /\ UNCHANGED <<ctor, clock, connectionStatus, ctorErr>>
    /\ UNCHANGED <<mvars, qvars, cvars>>
    /\ device' = IF wpc' = "incall2" THEN Serve(device, ProbeRequest) ELSE device
    /\ UNCHANGED logged

\* the repeated call of the certificate case returns
WorkerCertReturn ==
    /\ wpc = "incall2"
    /\ \E reply \in SDKReplies({<<>>, <<VsWaf>>}) :
        IF reply.err = ""
        THEN /\ wpc' = "sendNil"
             /\ UNCHANGED <<wretry, wakeAt, wdelays>>
        ELSE NextAttempt
    /\ UNCHANGED <<ctor, wLastErr, callStart, clock, connectionStatus,
                   ctorErr, probeCalls>>
    /\ UNCHANGED <<mvars, qvars, cvars>>
    /\ UNCHANGED device
    /\ UNCHANGED logged

\* time.Sleep(delay) ends and the attempt issues its call
WorkerWake ==
    /\ wpc = "sleeping" /\ clock >= wakeAt
    /\ wpc' = "incall"
    /\ probeCalls' = probeCalls + 1
    /\ callStart' = clock
    /\ UNCHANGED <<ctor, wretry, wLastErr, wakeAt, clock, connectionStatus,
                   ctorErr, wdelays>>
    /\ UNCHANGED <<mvars, qvars, cvars>>
    /\ device' = Serve(device, ProbeRequest)
    /\ UNCHANGED logged

\* a faulty send: the channel has no buffer, a receiver must be waiting
WorkerSendUnbuffered ==
    /\ wpc \in {"sendNil", "sendErr"}
    /\ ctor = "waiting"
    /\ connectionStatus' = Append(connectionStatus,
          IF wpc = "sendNil" THEN ""
          ELSE "failed to connect after 3 attempts - last error: " \o wLastErr)
    /\ wpc' = "done"
    /\ UNCHANGED <<ctor, wretry, wLastErr, wakeAt, callStart, clock, ctorErr,
                   probeCalls, wdelays>>
    /\ UNCHANGED <<mvars, qvars, cvars>>
    /\ UNCHANGED device
    /\ UNCHANGED logged

\* connectionStatus <- nil, or <- the final error; the goroutine ends
WorkerSend ==
    /\ wpc \in {"sendNil", "sendErr"}
    /\ Len(connectionStatus) < chanCapacity
    /\ connectionStatus' = Append(connectionStatus,
          IF wpc = "sendNil" THEN ""
          ELSE "failed to connect after 3 attempts - last error: " \o wLastErr)
    /\ wpc' = "done"
    /\ UNCHANGED <<ctor, wretry, wLastErr, wakeAt, callStart, clock, ctorErr,
                   probeCalls, wdelays>>
    /\ UNCHANGED <<mvars, qvars, cvars>>
    /\ UNCHANGED device
    /\ UNCHANGED logged

\* case err := <-connectionStatus
SelectReceive ==
    /\ ctor = "waiting" /\ connectionStatus # <<>>
    /\ LET err == Head(connectionStatus)
       IN  /\ ctor' = IF err = "" THEN "ok" ELSE "failed"
           /\ ctorErr' = IF err = "" THEN ""
                         ELSE "failed to connect to BIG-IP: " \o err
    /\ connectionStatus' = Tail(connectionStatus)
    /\ UNCHANGED <<wpc, wretry, wLastErr, wakeAt, callStart, clock,
                   probeCalls, wdelays>>
    /\ UNCHANGED <<mvars, qvars, cvars>>
    /\ UNCHANGED device
    /\ UNCHANGED logged

\* a faulty timeout: the goroutine is ended with the constructor
SelectTimeoutCancels ==
    /\ ctor = "waiting"
    /\ clock >= connectTimeout
    /\ ctor' = "timeout"
    /\ ctorErr' = "connection timeout after 60 seconds"
    /\ wpc' = "done"
    /\ UNCHANGED <<wretry, wLastErr, wakeAt, callStart, clock,
                   connectionStatus, probeCalls, wdelays>>
    /\ UNCHANGED <<mvars, qvars, cvars>>
    /\ UNCHANGED device
    /\ UNCHANGED logged

\* case <-time.After(60 * time.Second); when a result is ready as well,
\* select takes either case
SelectTimeout ==
    /\ ctor = "waiting"
    /\ clock >= connectTimeout
    /\ ctor' = "timeout"
    /\ ctorErr' = "connection timeout after 60 seconds"
    /\ UNCHANGED <<wpc, wretry, wLastErr, wakeAt, callStart, clock,
                   connectionStatus, probeCalls, wdelays>>
    /\ UNCHANGED <<mvars, qvars, cvars>>
    /\ UNCHANGED device
    /\ UNCHANGED logged

\* Time passes while the goroutine sleeps or waits for the device.  What
\* is due happens first: a send, a receive, the timer, the end of a sleep,
\* the end of the longest call.
Tick ==
    /\ wpc \in {"incall", "incall2", "sleeping"}
    /\ ~(ctor = "waiting" /\ clock >= connectTimeout)
    /\ ~(ctor = "waiting" /\ connectionStatus # <<>>)
    /\ wpc = "sleeping" => clock < wakeAt
    /\ wpc \in {"incall", "incall2"} => clock - callStart < MaxCallSteps * baseDelay
    /\ clock' = clock + baseDelay
    /\ UNCHANGED <<ctor, wpc, wretry, wLastErr, wakeAt, callStart,
                   connectionStatus, ctorErr, probeCalls, wdelays>>
    /\ UNCHANGED <<mvars, qvars, cvars>>
    /\ UNCHANGED device
    /\ UNCHANGED logged

Worker == WorkerCallReturn \/ WorkerCertReturn \/ WorkerWake \/ WorkerSend

---------------------------------------------------------------------------
(* utils/formatter.go.  A formatted text is the sequence of its non-empty   *)
(* lines; the bullet and arrow glyphs are written * and >.                 *)

Rule == "----------------------------------------"

\* a faulty block: the status does not follow the server's flag
VirtualServerBlockEnabled(i, v) ==
    << "[" \o ToString(i) \o "] Virtual Server Details:", Rule,
       "Name:        " \o v.Name,
       "Destination: " \o v.Destination,
       "Pool:        " \o v.Pool,
       "Status:      Enabled" >> \o
    (IF v.Description # "" THEN <<"Description: " \o v.Description>> ELSE <<>>) \o
    <<Rule>>

VirtualServerBlock(i, v) ==
    << "[" \o ToString(i) \o "] Virtual Server Details:", Rule,
       "Name:        " \o v.Name,
       "Destination: " \o v.Destination,
       "Pool:        " \o v.Pool,
       "Status:      " \o (IF v.Enabled THEN "Enabled" ELSE "Disabled") >> \o
    (IF v.Description # "" THEN <<"Description: " \o v.Description>> ELSE <<>>) \o
    <<Rule>>

RECURSIVE VirtualServerBlocks(_, _)
\* for i, v := range vs
VirtualServerBlocks(list, from) ==
    IF from > Len(list) THEN <<>>
    ELSE VirtualServerBlock(from, list[from]) \o VirtualServerBlocks(list, from + 1)

FormatVirtualServers(vs) ==
    <<"=== Virtual Servers (VIPs) ===">> \o
    (IF Len(vs) = 0 THEN <<"No virtual servers are currently configured.">>
     ELSE VirtualServerBlocks(vs, 1))

RECURSIVE MemberLines(_, _)
MemberLines(members, j) ==
    IF j > Len(members) THEN <<>>
    ELSE <<"  " \o ToString(j) \o ". " \o members[j]>> \o MemberLines(members, j + 1)

PoolBlock(i, p, members) ==
    << "[" \o ToString(i) \o "] Pool Details:", Rule,
       "Name:         " \o p.Name,
       "Load Balance: " \o p.LoadBalancingMode,
       "Monitor:      " \o p.Monitor,
       "Pool Members:" >> \o
    (IF p.Name \in DOMAIN members /\ Len(members[p.Name]) > 0
     THEN MemberLines(members[p.Name], 1)
     ELSE <<"  No members configured">>) \o
    (IF p.Description # "" THEN <<"Description: " \o p.Description>> ELSE <<>>) \o
    <<Rule>>

RECURSIVE PoolBlocks(_, _, _)
\* for i, p := range pools
PoolBlocks(list, members, from) ==
    IF from > Len(list) THEN <<>>
    ELSE PoolBlock(from, list[from], members) \o PoolBlocks(list, members, from + 1)

FormatPools(list, members) ==
    <<"=== Server Pools ===">> \o
    (IF Len(list) = 0 THEN <<"No server pools are currently configured.">>
     ELSE PoolBlocks(list, members, 1))

\* a faulty FormatNodes: an empty list gets the heading only
FormatNodesHeadingOnly(nodes) == <<"=== Backend Nodes ===">>

NodeBlock(i, node) ==
    << "[" \o ToString(i) \o "] Node Details:", Rule,
       "Name:    " \o node.Name,
       "Address: " \o node.Address,
       "State:   " \o node.State,
       Rule >>

RECURSIVE NodeBlocks(_, _)
\* for i, node := range nodes
NodeBlocks(list, from) ==
    IF from > Len(list) THEN <<>>
    ELSE NodeBlock(from, list[from]) \o NodeBlocks(list, from + 1)

FormatNodes(nodes) ==
    <<"=== Backend Nodes ===">> \o
    (IF Len(nodes) = 0 THEN <<"No backend nodes are currently configured.">>
     ELSE NodeBlocks(nodes, 1))

RECURSIVE Bullets(_, _, _)
Bullets(mark, names, j) ==
    IF j > Len(names) THEN <<>>
    ELSE <<mark \o names[j]>> \o Bullets(mark, names, j + 1)

WAFPolicyBlock(i, policy) ==
    << "[" \o ToString(i) \o "] WAF Policy Details:", Rule,
       "Name: " \o policy.Name,
       "Status: " \o (IF policy.Active THEN "Active" ELSE "Inactive") >> \o
    (IF Len(policy.VirtualServers) > 0
     THEN <<"Applied to Virtual Servers:">> \o Bullets("- ", policy.VirtualServers, 1)
     ELSE <<"Not currently applied to any Virtual Servers">>) \o
    (IF policy.EnforcementMode # ""
     THEN <<"Enforcement Mode: " \o policy.EnforcementMode>> \o
          (IF policy.EnforcementMode = "blocking"
           THEN <<"  (Actively blocking detected violations)">>
           ELSE IF policy.EnforcementMode = "transparent"
           THEN <<"  (Monitoring mode - logging only)">>
           ELSE <<>>)
     ELSE <<>>) \o
    (IF policy.Type # "" THEN <<"Type: " \o policy.Type>> ELSE <<>>) \o
    <<"Signature Staging: " \o
        (IF policy.SignatureStaging
         THEN "Enabled (New signatures in staging mode)"
         ELSE "Disabled (All signatures in production)")>> \o
    (IF Len(policy.VirtualServers) > 0
     THEN <<"Associated Virtual Servers:">> \o Bullets("- ", policy.VirtualServers, 1)
     ELSE <<>>) \o
    (IF policy.Description # ""
     THEN <<"Description: " \o policy.Description>> ELSE <<>>) \o
    <<Rule>>

RECURSIVE WAFPolicyBlocks(_, _)
\* for i, policy := range policies
WAFPolicyBlocks(list, from) ==
    IF from > Len(list) THEN <<>>
    ELSE WAFPolicyBlock(from, list[from]) \o WAFPolicyBlocks(list, from + 1)

FormatWAFPolicies(policies) ==
    << "=== WAF (Web Application Firewall) Policies ===",
       "Reference: iControl REST API v14.1.0" >> \o
    (IF Len(policies) = 0
     THEN << "No WAF policies are currently configured on this BIG-IP system.",
             "Note: WAF policies protect web applications from:",
             "- SQL injection attacks",
             "- Cross-site scripting (XSS)",
             "- Request/Response validation",
             "- Protocol compliance",
             "- Other OWASP Top 10 vulnerabilities",
             "To configure a WAF policy, use the BIG-IP Configuration utility or API." >>
     ELSE <<"Found " \o ToString(Len(policies)) \o " WAF Policies:">> \o
          WAFPolicyBlocks(policies, 1) \o
          << "Note: WAF policies are configured to protect web applications from various attacks such as SQL injection, cross-site scripting (XSS), and other OWASP Top 10 vulnerabilities.",
             "Tip: To see detailed information about a specific policy, ask about 'policy details for [policy name]'" >>)

FormatWAFPolicyDetails(policy) ==
    << "=== WAF (Web Application Firewall) Policy Details ===",
       "Reference: iControl REST API v14.1.0, Chapter 7: Application Security Management",
       Rule,
       "BASIC INFORMATION:",
       "* Name: " \o policy.Name,
       "* Full Path: " \o policy.FullPath,
       "* ID: " \o policy.ID,
       "STATUS AND CONFIGURATION:",
       "* Active: " \o (IF policy.Active
                        THEN "Yes (Policy is enforcing security rules)"
                        ELSE "No (Policy is inactive)") >> \o
    (IF policy.Type # "" THEN <<"* Type: " \o policy.Type>> ELSE <<>>) \o
    <<"ENFORCEMENT SETTINGS:">> \o
    (IF policy.EnforcementMode # ""
     THEN <<"* Mode: " \o policy.EnforcementMode>> \o
          (IF policy.EnforcementMode = "blocking"
           THEN << "  > Policy is actively preventing detected violations",
                   "  > Malicious requests are blocked in real-time" >>
           ELSE IF policy.EnforcementMode = "transparent"
           THEN << "  > Policy is in monitoring/learning mode",
                   "  > Violations are logged but not blocked" >>
           ELSE <<>>)
     ELSE <<>>) \o
    << "SIGNATURE SETTINGS:",
       "* Staging: " \o (IF policy.SignatureStaging
                         THEN "Enabled - New signatures are in staging mode"
                         ELSE "Disabled - All signatures are in production") >> \o
    (IF policy.SignatureStaging
     THEN << "  > New attack signatures are monitored without blocking",
             "  > Helps prevent false positives with new signatures" >>
     ELSE <<>>) \o
    (IF policy.BlockingMode # ""
     THEN <<"* Blocking Mode: " \o policy.BlockingMode>> ELSE <<>>) \o
    <<"VIRTUAL SERVER ASSOCIATIONS:">> \o
    (IF Len(policy.VirtualServers) > 0
     THEN Bullets("* ", policy.VirtualServers, 1) \o
          <<"Note: This policy is actively protecting the above virtual servers">>
     ELSE << "* Not currently applied to any Virtual Servers",
             "Note: Policy is configured but not actively protecting any services" >>) \o
    (IF policy.Description # ""
     THEN <<"DESCRIPTION:", policy.Description>> ELSE <<>>) \o
    << "API REFERENCE:",
       "* Self Link: " \o policy.SelfLink,
       "* Kind: " \o policy.Kind,
       "* Policy ID: " \o policy.ID,
       "TIP: Use this policy ID for direct API requests and automation",
       Rule >>

SignatureBlock(i, sig) ==
    << "[" \o ToString(i) \o "] Signature Details:", Rule,
       "Name: " \o sig.Name,
       "Signature ID: " \o sig.SignatureID,
       "Status: " \o (IF sig.Enabled THEN "Enabled" ELSE "Disabled"),
       "Staging: " \o (IF sig.Staging THEN "Yes (Learning Mode)"
                       ELSE "No (Enforcement Mode)"),
       "Blocking: " \o (IF sig.BlockingEnabled
                        THEN "Enabled (Violations are blocked)"
                        ELSE "Disabled (Monitoring only)") >> \o
    (IF sig.SignatureType # "" THEN <<"Type: " \o sig.SignatureType>> ELSE <<>>) \o
    (IF sig.AccuracyLevel # "" THEN <<"Accuracy: " \o sig.AccuracyLevel>> ELSE <<>>) \o
    (IF sig.RiskLevel # "" THEN <<"Risk Level: " \o sig.RiskLevel>> ELSE <<>>) \o
    (IF sig.Description # "" THEN <<"Description: " \o sig.Description>> ELSE <<>>) \o
    <<Rule>>

RECURSIVE SignatureBlocks(_, _)
\* for i, sig := range signatures
SignatureBlocks(list, from) ==
    IF from > Len(list) THEN <<>>
    ELSE SignatureBlock(from, list[from]) \o SignatureBlocks(list, from + 1)

FormatSignatureStatus(signatures) ==
    << "=== WAF Policy Signature Status ===",
       "Reference: iControl REST API v14.1.0, Chapter 7: ASM Signatures",
       Rule >> \o
    (IF Len(signatures) = 0 THEN <<"No signatures found for this policy.">>
     ELSE <<"Found " \o ToString(Len(signatures)) \o " Signatures:">> \o
          SignatureBlocks(signatures, 1))

---------------------------------------------------------------------------
(* llm/openai.go and chat/interface.go.                                    *)

\* what the model's descriptions are made of
Phrases ==
    { "WAF policy", "Security Policies", "show", "details", "virtual server",
      "VIP", "pool", "backend", "node", "list" }

RECURSIVE Join(_)
Join(l) ==
    IF Len(l) = 0 THEN ""
    ELSE IF Len(l) = 1 THEN l[1]
    ELSE l[1] \o " " \o Join(Tail(l))

\* the descriptions the model may answer with
Descriptions == {Join(l) : l \in ListsOf(Phrases, MaxPhrases)}

\* the errors of the chat-completion call
ModelErrors ==
    { "status code: 429, message: rate limit reached",
      "context deadline exceeded" }

PolicyKeywords ==
    { "waf", "web application firewall", "asm", "application security",
      "security policy", "policies", "protection", "web security" }
VirtualServerKeywords == {"virtual server", "vip", "virtual ip", "virtual address"}
PoolKeywords == {"pool", "server pool", "backend pool", "server group"}
NodeKeywords == {"node", "server", "backend", "real server"}

\* the four categories of device object
Categories == {"policy", "vs", "pool", "node"}

Keywords(c) ==
    CASE c = "policy" -> PolicyKeywords
      [] c = "vs" -> VirtualServerKeywords
      [] c = "pool" -> PoolKeywords
      [] c = "node" -> NodeKeywords

\* a text holds a keyword of category c
Mentions(text, c) == \E k \in Keywords(c) : Contains(text, k)

HelpText ==
    << "I understand you're asking about BIG-IP configuration. To help you better, could you please be more specific?",
       "",
       "You can ask questions like:",
       "1. 'Show me all virtual servers (VIPs)' - View front-end service points",
       "2. 'List all pools and their members' - See load balancing groups",
       "3. 'Display node status' - Check backend server health",
       "",
       "Feel free to ask about specific components or use natural language to describe what you're looking for." >>

\* a faulty routing: the categories are tried in the reverse order
RouteNodeFirst(lowerResponse) ==
    IF containsAny(lowerResponse, NodeKeywords) THEN "node"
    ELSE IF containsAny(lowerResponse, PoolKeywords) THEN "pool"
    ELSE IF containsAny(lowerResponse, VirtualServerKeywords) THEN "vs"
    ELSE IF containsAny(lowerResponse, PolicyKeywords) THEN "policy"
    ELSE "help"

\* the category whose branch executeOperation enters: the first that matches
Route(lowerResponse) ==
    IF containsAny(lowerResponse, PolicyKeywords) THEN "policy"
    ELSE IF containsAny(lowerResponse, VirtualServerKeywords) THEN "vs"
    ELSE IF containsAny(lowerResponse, PoolKeywords) THEN "pool"
    ELSE IF containsAny(lowerResponse, NodeKeywords) THEN "node"
    ELSE "help"

\* within the policy branch: is one policy's detail asked for?
\* a faulty secondary check: the word policy is not asked for
WantsDetailsAnyWord(lowerResponse) ==
    \/ Contains(lowerResponse, "details")
    \/ Contains(lowerResponse, "show")
    \/ Contains(lowerResponse, "get")

WantsDetails(lowerResponse) ==
    /\ \/ Contains(lowerResponse, "details")
       \/ Contains(lowerResponse, "show")
       \/ Contains(lowerResponse, "get")
    /\ Contains(lowerResponse, "policy")

\* a faulty extraction: the first word of the query
ExtractPolicyNameFirst(originalQuery) ==
    LET parts == Fields(ToLower(originalQuery))
    IN  IF Len(parts) > 0 THEN parts[1] ELSE ""

\* a faulty extraction: the last word of the query, whatever it contains
ExtractPolicyNameLast(originalQuery) ==
    LET parts == Fields(ToLower(originalQuery))
    IN  IF Len(parts) > 0 THEN parts[Len(parts)] ELSE ""

\* policyName as the detail path derives it from the original query
ExtractPolicyName(originalQuery) ==
    LET q == ToLower(originalQuery)
        parts == Fields(q)
    IN  IF Contains(q, "demo") THEN "demo"
        ELSE IF Contains(q, "vs_waf") THEN "VS_WAF"
        ELSE IF Len(parts) > 0 THEN parts[Len(parts)]
        ELSE ""

\* a faulty apology: the error is dropped
ModelFailureBare(err) ==
    "I apologize, but I'm having trouble understanding your request. Could you please rephrase it?"

\* a faulty wrapping: the error is dropped
OperationFailureBare(err) ==
    "I understood your request about the BIG-IP configuration, but encountered an issue while fetching the information. Please try again."

\* ProcessQuery's wrapping of a model error and of an executeOperation error
ModelFailure(err) ==
    "I apologize, but I'm having trouble understanding your request. Could you please rephrase it? (Error: "
        \o err \o ")"
OperationFailure(err) ==
    "I understood your request about the BIG-IP configuration, but encountered an issue while fetching the information. Please try again. (Error: "
        \o err \o ")"

\* the error executeOperation makes of a GetWAFPolicies error: first match
WAFPoliciesFailure(err) ==
    IF Contains(err, "not found")
    THEN "WAF (Web Application Firewall) policies endpoint not found. Please ensure:\n1. ASM module is provisioned\n2. You have appropriate permissions\n3. WAF feature is licensed"
    ELSE IF Contains(err, "unauthorized")
    THEN "Authentication failed. Please verify your credentials and WAF access permissions"
    ELSE IF Contains(err, "connection")
    THEN "Connection error. Please verify:\n1. BIG-IP is accessible\n2. Network connectivity\n3. HTTPS/TLS settings"
    ELSE "Unable to fetch WAF policies. This could be due to:\n1. ASM module not being provisioned\n2. Insufficient permissions\n3. Network connectivity issues\n\nError details: "
            \o err

QueryIdle ==
    /\ qpc = "idle" /\ query = "" /\ llmResponse = "" /\ llmCalls = 0
    /\ branch = "none" /\ matched = {} /\ clientCalls = <<>> /\ qret = NoRet

\* the frame of a returned ProcessQuery is dropped
QueryLeave ==
    /\ qpc' = "idle" /\ query' = "" /\ llmResponse' = "" /\ llmCalls' = 0
    /\ branch' = "none" /\ matched' = {} /\ clientCalls' = <<>> /\ qret' = NoRet

\* main calls ProcessQuery(q)
CallProcessQuery(q) ==
    /\ qpc' = "call" /\ query' = q /\ llmResponse' = "" /\ llmCalls' = 0
    /\ branch' = "none" /\ matched' = {} /\ clientCalls' = <<>> /\ qret' = NoRet

\* ProcessQuery up to executeOperation: the model is asked once.  A failed
\* call is returned as an error; an answer without choices makes
\* resp.Choices[0] panic.
ProcessPrompt ==
    /\ qpc = "call"
    /\ llmCalls' = llmCalls + 1
    /\ \/ \E e \in ModelErrors :
            /\ qret' = Return(ModelFailure("OpenAI API error: " \o e), <<>>)
            /\ qpc' = "done"
            /\ UNCHANGED <<llmResponse, mainPc>>
       \/ /\ qpc' = "panic"
          /\ mainPc' = "crashed"
          /\ UNCHANGED <<llmResponse, qret>>
       \/ \E d \in Descriptions :
            /\ llmResponse' = d
            /\ qpc' = "dispatch"
            /\ UNCHANGED <<qret, mainPc>>
    /\ UNCHANGED <<env, cfg, input, printed, stdinEOF>>
    /\ UNCHANGED <<query, branch, matched, clientCalls>>
    /\ UNCHANGED <<cvars, nvars>>
    /\ UNCHANGED device
    /\ UNCHANGED logged

\* executeOperation up to the call of the device client, or to its return
\* where no call is made.  The description is not read again afterwards:
\* of it, only the categories it mentioned are kept.
Dispatch ==
    /\ qpc = "dispatch"
    /\ LET lowerResponse == ToLower(llmResponse)
           category == Route(lowerResponse)
           name == ExtractPolicyName(query)
       IN  IF category = "policy" /\ WantsDetails(lowerResponse)
           THEN /\ branch' = "policy_detail"
                /\ IF name = ""
                   THEN /\ qret' = Return(OperationFailure(
                                "could not determine policy name from query"), <<>>)
                        /\ qpc' = "done"
                        /\ clientCalls' = clientCalls
                        /\ UNCHANGED cvars
                   ELSE /\ CallGetWAFPolicyDetails(name)
                        /\ clientCalls' = Append(clientCalls, "GetWAFPolicyDetails")
                        /\ qpc' = "wait"
                        /\ qret' = qret
           ELSE IF category = "policy"
           THEN /\ branch' = "policy_list"
                /\ Enter("GetWAFPolicies", "", NoRet)
                /\ clientCalls' = Append(clientCalls, "GetWAFPolicies")
                /\ qpc' = "wait" /\ qret' = qret
           ELSE IF category = "vs"
           THEN /\ branch' = "vs"
                /\ Enter("GetVirtualServers", "", NoRet)
                /\ clientCalls' = Append(clientCalls, "GetVirtualServers")
                /\ qpc' = "wait" /\ qret' = qret
           ELSE IF category = "pool"
           THEN /\ branch' = "pool"
                /\ Enter("GetPools", "", NoRet)
                /\ clientCalls' = Append(clientCalls, "GetPools")
                /\ qpc' = "wait" /\ qret' = qret
           ELSE IF category = "node"
           THEN /\ branch' = "node"
                /\ Enter("GetNodes", "", NoRet)
                /\ clientCalls' = Append(clientCalls, "GetNodes")
                /\ qpc' = "wait" /\ qret' = qret
           ELSE /\ branch' = "help"
                /\ qret' = Return("", HelpText)
                /\ qpc' = "done"
                /\ clientCalls' = clientCalls
                /\ UNCHANGED cvars
    /\ matched' = {c \in Categories : Mentions(ToLower(llmResponse), c)}
    /\ llmResponse' = ""
    /\ UNCHANGED <<query, llmCalls>>
    /\ UNCHANGED <<mvars, nvars>>
    /\ UNCHANGED device
    /\ UNCHANGED logged

\* what executeOperation and then ProcessQuery make of the client's return
QueryResult(b, r) ==
    IF r.err # ""
    THEN Return(OperationFailure(
            CASE b = "policy_detail" -> "failed to fetch WAF policy details: " \o r.err
              [] b = "policy_list" -> WAFPoliciesFailure(r.err)
              [] OTHER -> r.err), <<>>)
    ELSE Return("",
            CASE b = "policy_detail" -> FormatWAFPolicyDetails(r.val)
              [] b = "policy_list" -> FormatWAFPolicies(r.val)
              [] b = "vs" -> FormatVirtualServers(r.val)
              [] b = "pool" -> FormatPools(r.val.pools, r.val.members)
              [] b = "node" -> FormatNodes(r.val))

\* a faulty ProcessQuery: it returns while the device operation still runs
DispatchReturnsEarly ==
    /\ qpc = "wait"
    /\ qret' = QueryResult(branch, Return("", IF branch = "pool"
                    THEN [pools |-> <<>>, members |-> NoPoolMembers]
                    ELSE IF branch = "policy_detail" THEN ToWAFPolicy(PolDemo)
                    ELSE <<>>))
    /\ qpc' = "done"
    /\ UNCHANGED <<query, llmResponse, llmCalls, branch, matched, clientCalls>>
    /\ UNCHANGED <<mvars, cvars, nvars>>
    /\ UNCHANGED device
    /\ UNCHANGED logged

\* the device client returns to executeOperation, which returns to
\* ProcessQuery, which returns
DispatchReturns ==
    /\ qpc = "wait" /\ ret.done
    /\ qret' = QueryResult(branch, ret)
    /\ qpc' = "done"
    /\ Leave
    /\ UNCHANGED <<query, llmResponse, llmCalls, branch, matched, clientCalls>>
    /\ UNCHANGED <<mvars, nvars>>
    /\ UNCHANGED device
    /\ logged' = IF branch = "policy_list" /\ ret.err = ""
                 THEN logged \o LogEach("executeOperation", ret.val,
                        {"Name", "VirtualServers", "Active", "EnforcementMode"})
                 ELSE logged

---------------------------------------------------------------------------
(* main.go.                                                                *)

EnvNames == {"BIGIP_HOST", "BIGIP_USERNAME", "BIGIP_PASSWORD", "OPENAI_API_KEY"}

EnvValue(n) ==
    CASE n = "BIGIP_HOST" -> "10.0.0.1:443"
      [] n = "BIGIP_USERNAME" -> "admin"
      [] n = "BIGIP_PASSWORD" -> "secret"
      [] n = "OPENAI_API_KEY" -> "sk-test"

\* the environments the process may start in: each variable set or not
Environments == {[n \in EnvNames |-> IF n \in S THEN EnvValue(n) ELSE ""] :
                    S \in SUBSET EnvNames}

NoConfig == [n \in {} |-> ""]

\* the lines standard input may deliver, each ended by its newline
Lines ==
    { "exit\n", "  exit \r\n", "Exit\n", "\n", "show policy details for demo\n",
      "Show VS_WAF policy\n", "describe policy Prod\n", "Demo or VS_WAF\n" }

\* the errors reader.ReadString may return, and the data it returns with
\* an error: what was read before it, without a newline
ReadErrors == {"EOF", "read /dev/stdin: input/output error"}
PartialLines == {"", "exit"}

Printed(kind, body) == [kind |-> kind, body |-> body]
Nothing == Printed("nothing", <<>>)

MainIdle == /\ env = NoConfig /\ cfg = NoConfig /\ input = ""
            /\ printed = Nothing /\ stdinEOF = FALSE

\* a faulty test: only the host is required
MissingHost(e) == e["BIGIP_HOST"] = ""

\* LoadConfig's test of the four values read from the environment
MissingSetting(e) ==
    \/ e["BIGIP_HOST"] = "" \/ e["BIGIP_USERNAME"] = ""
    \/ e["BIGIP_PASSWORD"] = "" \/ e["OPENAI_API_KEY"] = ""

\* the Config LoadConfig returns
ConfigOf(e) ==
    [BigIPHost |-> e["BIGIP_HOST"], BigIPUsername |-> e["BIGIP_USERNAME"],
     BigIPPassword |-> e["BIGIP_PASSWORD"], OpenAIKey |-> e["OPENAI_API_KEY"]]

\* config.LoadConfig and main's check of its result
LoadConfig ==
    /\ mainPc = "LoadConfig"
    /\ IF MissingSetting(env)
       THEN mainPc' = "fatal" /\ cfg' = cfg
       ELSE mainPc' = "NewClient" /\ cfg' = ConfigOf(env)
    /\ UNCHANGED <<env, input, printed, stdinEOF>>
    /\ UNCHANGED <<qvars, cvars, nvars>>
    /\ UNCHANGED device
    /\ UNCHANGED logged

\* NewClient has returned: log.Fatalf on an error (the process and its
\* goroutines end); otherwise the model client and the chat interface are
\* made and the test command is run
AfterNewClient ==
    /\ mainPc = "NewClient" /\ ctor \in {"ok", "failed", "timeout"}
    /\ NewClientLeave
    /\ UNCHANGED ctor
    /\ IF ctor = "ok"
       THEN /\ mainPc' = "test"
            /\ CallProcessQuery("show virtual servers")
       ELSE /\ mainPc' = "fatal"
            /\ UNCHANGED qvars
    /\ UNCHANGED <<env, cfg, input, printed, stdinEOF>>
    /\ UNCHANGED cvars
    /\ UNCHANGED device
    /\ UNCHANGED logged

\* a faulty main: an error of a query ends the process
PrintResultOrExit ==
    /\ mainPc \in {"test", "query"} /\ qpc = "done"
    /\ printed' = IF qret.err # ""
                  THEN Printed(IF mainPc = "test" THEN "Error with test command: "
                               ELSE "Error: ", qret.err)
                  ELSE Printed("BIG-IP: ", qret.val)
    /\ mainPc' = IF qret.err # "" THEN "fatal" ELSE "loop"
    /\ QueryLeave
    /\ UNCHANGED <<env, cfg, input, stdinEOF>>
    /\ UNCHANGED <<cvars, nvars>>
    /\ UNCHANGED device
    /\ logged' = <<>>

\* ProcessQuery has returned to main: the error or the response is printed
PrintResult ==
    /\ mainPc \in {"test", "query"} /\ qpc = "done"
    /\ printed' = IF qret.err # ""
                  THEN Printed(IF mainPc = "test" THEN "Error with test command: "
                               ELSE "Error: ", qret.err)
                  ELSE Printed("BIG-IP: ", qret.val)
    /\ mainPc' = "loop"
    /\ QueryLeave
    /\ UNCHANGED <<env, cfg, input, stdinEOF>>
    /\ UNCHANGED <<cvars, nvars>>
    /\ UNCHANGED device
    /\ logged' = <<>>

\* a faulty loop: the end of input ends it
ReadLineEndsAtEOF ==
    /\ mainPc = "loop"
    /\ \/ \E e \in ReadErrors, partial \in PartialLines :
            /\ stdinEOF => e = "EOF" /\ partial = ""
            /\ printed' = Printed("Error reading input: ", e)
            /\ input' = partial
            /\ stdinEOF' = (stdinEOF \/ e = "EOF")
            /\ mainPc' = IF e = "EOF" THEN "end" ELSE mainPc
            /\ UNCHANGED qvars
       \/ \E line \in Lines :
            /\ ~stdinEOF
            /\ printed' = Printed("You: ", <<>>)
            /\ input' = TrimSpace(line)
            /\ stdinEOF' = stdinEOF
            /\ IF input' = "exit"
               THEN mainPc' = "end" /\ UNCHANGED qvars
               ELSE mainPc' = "query" /\ CallProcessQuery(input')
    /\ UNCHANGED <<env, cfg>>
    /\ UNCHANGED <<cvars, nvars>>
    /\ UNCHANGED device
    /\ UNCHANGED logged

\* a faulty loop: every line is passed to ProcessQuery
ReadLineNoExit ==
    /\ mainPc = "loop"
    /\ \/ \E e \in ReadErrors, partial \in PartialLines :
            /\ stdinEOF => e = "EOF" /\ partial = ""
            /\ printed' = Printed("Error reading input: ", e)
            /\ input' = partial
            /\ stdinEOF' = (stdinEOF \/ e = "EOF")
            /\ UNCHANGED <<mainPc, qvars>>
       \/ \E line \in Lines :
            /\ ~stdinEOF
            /\ printed' = Printed("You: ", <<>>)
            /\ input' = TrimSpace(line)
            /\ stdinEOF' = stdinEOF
            /\ mainPc' = "query" /\ CallProcessQuery(input')
    /\ UNCHANGED <<env, cfg>>
    /\ UNCHANGED <<cvars, nvars>>
    /\ UNCHANGED device
    /\ UNCHANGED logged

\* One pass of the loop up to the call of ProcessQuery: the prompt, the
\* read, the trim, the test for "exit".
ReadLine ==
    /\ mainPc = "loop"
    /\ \/ \* reader.ReadString fails: the error is printed, continue
          \E e \in ReadErrors, partial \in PartialLines :
            /\ stdinEOF => e = "EOF" /\ partial = ""
            /\ printed' = Printed("Error reading input: ", e)
            /\ input' = partial
            /\ stdinEOF' = (stdinEOF \/ e = "EOF")
            /\ UNCHANGED <<mainPc, qvars>>
       \/ \E line \in Lines :
            /\ ~stdinEOF
            /\ printed' = Printed("You: ", <<>>)
            /\ input' = TrimSpace(line)
            /\ stdinEOF' = stdinEOF
            /\ IF input' = "exit"
               THEN mainPc' = "end" /\ UNCHANGED qvars
               ELSE mainPc' = "query" /\ CallProcessQuery(input')
    /\ UNCHANGED <<env, cfg>>
    /\ UNCHANGED <<cvars, nvars>>
    /\ UNCHANGED device
    /\ UNCHANGED logged

Init ==
    /\ mainPc = "LoadConfig"
    /\ env \in Environments
    /\ cfg = NoConfig /\ input = "" /\ printed = Nothing /\ stdinEOF = FALSE
    /\ QueryIdle /\ ClientIdle
    /\ ctor = "none" /\ NewClientIdle
    /\ device \in DeviceConfigs
    /\ logged = <<>>

Next ==
    \/ LoadConfig
    \/ NewClientStart
    \/ WorkerCallReturn
    \/ WorkerCertReturn
    \/ WorkerWake
    \/ WorkerSend
    \/ SelectReceive
    \/ SelectTimeout
    \/ Tick
    \/ AfterNewClient
    \/ ProcessPrompt
    \/ Dispatch
    \/ WAFPoliciesAttempt
    \/ WAFPolicyDetailsAttempt
    \/ GetVirtualServersCall
    \/ GetPoolsCall
    \/ GetPoolsMembers
    \/ GetNodesCall
    \/ DispatchReturns
    \/ PrintResult
    \/ ReadLine

Spec == Init /\ [][Next]_vars

---------------------------------------------------------------------------
(* A program that constructs a client and then calls its read operations   *)
(* in any order with any arguments.                                        *)

PolicyNames == {"", "demo", "VS_WAF", "prod"}
PolicyIDs == {"", PolDemo.ID, PolVsWaf.ID}

InitClient ==
    /\ mainPc = "NewClient" /\ MainIdle /\ QueryIdle /\ ClientIdle
    /\ ctor = "none" /\ NewClientIdle
    /\ device \in DeviceConfigs
    /\ logged = <<>>

\* NewClient has returned a client
UseClient ==
    /\ mainPc = "NewClient" /\ ctor = "ok"
    /\ mainPc' = "client"
    /\ NewClientLeave
    /\ UNCHANGED <<ctor, env, cfg, input, printed, stdinEOF>>
    /\ UNCHANGED <<qvars, cvars>>
    /\ UNCHANGED device
    /\ UNCHANGED logged

CallOperation ==
    /\ mainPc = "client" /\ op = "none"
    /\ \/ Enter("GetWAFPolicies", "", NoRet)
       \/ \E name \in PolicyNames : CallGetWAFPolicyDetails(name)
       \/ Enter("GetVirtualServers", "", NoRet)
       \/ Enter("GetPools", "", NoRet)
       \/ Enter("GetNodes", "", NoRet)
       \/ \E id \in PolicyIDs : CallGetPolicySignatureStatus(id)
    /\ UNCHANGED <<mvars, qvars, nvars>>
    /\ UNCHANGED device
    /\ UNCHANGED logged

OperationReturns ==
    /\ mainPc = "client" /\ op # "none" /\ ret.done
    /\ Leave
    /\ UNCHANGED <<mvars, qvars, nvars>>
    /\ UNCHANGED device
    /\ logged' = <<>>

NextClient ==
    \/ NewClientStart
    \/ WorkerCallReturn
    \/ WorkerCertReturn
    \/ WorkerWake
    \/ WorkerSend
    \/ SelectReceive
    \/ SelectTimeout
    \/ Tick
    \/ UseClient
    \/ CallOperation
    \/ WAFPoliciesAttempt
    \/ WAFPolicyDetailsAttempt
    \/ GetVirtualServersCall
    \/ GetPoolsCall
    \/ GetPoolsMembers
    \/ GetNodesCall
    \/ GetPolicySignatureStatusCall
    \/ OperationReturns

SpecClient == InitClient /\ [][NextClient]_vars

\* The same, with the scheduling of the run time: the goroutine runs when
\* it can, its calls return, time passes, and the constructor's select
\* takes a case that is ready.
SpecClientLive ==
    /\ SpecClient
    /\ WF_vars(Worker)
    /\ WF_vars(Tick)
    /\ WF_vars(SelectReceive \/ SelectTimeout)

---------------------------------------------------------------------------
(* Claims about the device client, checked under SpecClient.               *)

InWAFPolicies == op = "GetWAFPolicies"
InWAFPolicyDetails == op = "GetWAFPolicyDetails"

\* the latest request of the operation failed with an error of these cases
FailedIn(cases) == lastReply = "error" /\ ErrorCase(lastErr) \in cases

\* a step that issues no request of the operation in progress
NoFurtherRequest == Len(requests') <= Len(requests)

\* C3 as stated: in GetWAFPolicies only connection, timeout and unclassified
\* errors are followed by another attempt; every other failure, a response
\* that does not parse included, has ended the call with an error.
C3_OnlyConnTimeoutDefaultRetried ==
    (InWAFPolicies /\ lastReply \in {"error", "malformed"})
        => \/ ret.done /\ ret.err # ""
           \/ FailedIn({"connection", "timeout", "default"})

\* C3 amended: in GetWAFPolicies an error of the 401, 403 or 404 case ends
\* the call at once with the error and no further request follows it; the
\* call goes on to another attempt only after an error of the 409,
\* connection, certificate, timeout or default case or after a response
\* that does not parse, and only while fewer than 3 attempts were made.
C3_FatalErrorsEndTheCall ==
    /\ [](InWAFPolicies /\ FailedIn({"401", "403", "404"})
            => /\ ret.done
               /\ ret.err = "failed to get WAF policies: " \o lastErr
               /\ Len(requests) = retry + 1)
    /\ [](InWAFPolicies /\ ~ret.done /\ lastReply # "none"
            => /\ \/ lastReply = "malformed"
                  \/ FailedIn({"409", "connection", "certificate",
                               "timeout", "default"})
               /\ Len(requests) < maxRetries)
    /\ [][InWAFPolicies /\ FailedIn({"401", "403", "404"})
            => NoFurtherRequest]_vars

\* C3 witness: a 404 on the second attempt, after a retried failure
C3_Witness ==
    /\ InWAFPolicies /\ FailedIn({"404"}) /\ ret.done
    /\ Len(requests) = 2 /\ delays = <<5>>

\* C4 as stated: GetPools returns every pool in the device's order with a
\* nil error; the lookup of a pool whose member fetch failed yields an empty
\* list, and the lookup of any other pool yields what its own fetch returned.
C4_EachPoolItsOwnMembers ==
    (op = "GetPools" /\ ret.done /\ lastReply = "parsed")
        => /\ ret.err = ""
           /\ ret.val.pools = pools
           /\ \A k \in 1..Len(pools) :
                MembersOf(ret.val.members, pools[k].Name) =
                    IF memberFetch[k].err # "" THEN <<>> ELSE memberFetch[k].items

\* a call of the probe is issued in this step
ProbeCallIssued == probeCalls' > probeCalls

\* C5 as stated: the probe calls the device at most 3 times.
C5_AtMostThreeCalls == probeCalls <= maxRetries

\* C5 amended: the probe makes at most 3 attempts.  An attempt issues the
\* call once, and once more at once when the failure text contains
\* "certificate" (a success of that second call ends the probe
\* successfully), so at most 6 calls are issued.  Every other failure is
\* followed by the backoff sleep of the next attempt, whatever its
\* classification, and after the third failed attempt the goroutine reports
\* the failure and the constructor never returns a client.
C5_ProbeAttempts ==
    /\ [](wretry <= maxRetries /\ probeCalls <= 2 * maxRetries)
    /\ [](wpc \in {"incall", "incall2", "sleeping"} => wretry < maxRetries)
    /\ [](wretry = maxRetries => wpc \in {"sendErr", "done"} /\ ctor # "ok")
    /\ [][(ProbeCallIssued /\ probeCalls >= 1)
            => /\ probeCalls' = probeCalls + 1
               /\ \/ wpc = "sleeping" /\ clock >= wakeAt /\ Len(wdelays) = wretry
                  \/ /\ wpc = "incall" /\ wpc' = "incall2" /\ wretry' = wretry
                     /\ Contains(ToLower(wLastErr'), "certificate")]_vars
    /\ [][(wpc = "incall" /\ wpc' \notin {"incall", "sendNil"})
            => IF Contains(ToLower(wLastErr'), "certificate")
               THEN wpc' = "incall2"
               ELSE wretry' = wretry + 1 /\ wpc' \in {"sleeping", "sendErr"}]_vars

\* C5 witness: the third attempt failed after a certificate failure had
\* been repeated at once
C5_Witness ==
    wretry = maxRetries /\ probeCalls > maxRetries /\ ctor = "failed"

\* C6: a client is returned only when the goroutine reported success and
\* the timer had not fired; once the timer fired the constructor has
\* failed for good, whatever the goroutine reports later; the timeout
\* leaves the goroutine as it is, and it goes on with its attempts.
C6_TimeoutAbandonsWorker ==
    /\ []((ctor = "ok" /\ mainPc = "NewClient")
            => wpc = "done" /\ wretry < maxRetries /\ clock <= connectTimeout)
    /\ [](ctor = "timeout" => clock >= connectTimeout)
    /\ [][ctor = "timeout" => ctor' = "timeout"]_vars
    /\ [][(ctor = "waiting" /\ ctor' = "timeout")
            => UNCHANGED <<wpc, wretry, probeCalls, connectionStatus>>]_vars
    /\ []((ctor = "timeout" /\ wpc # "done") => ENABLED (Worker \/ Tick))

\* C6 witness: the constructor timed out, and the goroutine has since
\* issued a call and reported success
C6_Witness ==
    /\ ctor = "timeout" /\ connectionStatus = <<"">>
    /\ callStart > connectTimeout

\* the delays slept before attempts 2 and 3
ExpectedDelays == <<5, 10>>

IsPrefix(s, t) == Len(s) <= Len(t) /\ s = SubSeq(t, 1, Len(s))

\* C7: each retry loop makes at most 3 attempts, sleeps before every
\* attempt but the first, 5 s before the second and 10 s before the third,
\* and never longer than 30 s.
C7_BackoffDelays ==
    /\ IsPrefix(wdelays, ExpectedDelays)
    /\ wretry <= maxRetries
    /\ wpc \in {"incall", "incall2"} => Len(wdelays) = wretry
    /\ (InWAFPolicies \/ InWAFPolicyDetails)
        => /\ IsPrefix(delays, ExpectedDelays)
           /\ Len(requests) <= maxRetries
           /\ Len(requests) > 0 => Len(delays) = Len(requests) - 1
           /\ Len(requests) = 0 => delays = <<>>
    /\ \A i \in 1..Len(delays) : delays[i] <= maxDelay
    /\ \A i \in 1..Len(wdelays) : wdelays[i] <= maxDelay

\* C7 witness: a third attempt of GetWAFPolicyDetails
C7_Witness ==
    InWAFPolicyDetails /\ Len(requests) = maxRetries /\ delays = <<5, 10>>

\* C8: GetWAFPolicyDetails("") returns the empty-name error and issues no
\* request.
C8_EmptyNameNoRequest ==
    (InWAFPolicyDetails /\ policyName = "")
        => /\ ret.done
           /\ ret.err = "policy name cannot be empty"
           /\ requests = <<>>

C8_Witness == InWAFPolicyDetails /\ policyName = "" /\ ret.done

\* the latest request was answered by a response that parsed
Parsed == lastReply = "parsed"

\* C9: a response with no item ends GetWAFPolicyDetails(name) with the
\* not-found error for that name, and no further request is issued.
C9_NoItemsNotFound ==
    /\ [](InWAFPolicyDetails /\ Parsed /\ Len(policiesResp) = 0
            => /\ ret.done
               /\ ret.err = "WAF policy '" \o policyName \o "' not found"
               /\ policyName # "")
    /\ [][InWAFPolicyDetails /\ Parsed => NoFurtherRequest]_vars

\* C9 witness: not found on the third attempt
C9_Witness ==
    /\ InWAFPolicyDetails /\ Parsed /\ Len(policiesResp) = 0
    /\ policyName = "prod" /\ Len(requests) = maxRetries

WAFPolicyFields ==
    {"Name", "FullPath", "ID", "Description", "Active", "Type",
     "EnforcementMode", "Kind", "SelfLink", "SignatureStaging",
     "VirtualServers", "SignatureSetings", "BlockingMode", "PlaceSignatures"}

\* C10: a parsed response with one item or more ends
\* GetWAFPolicyDetails(name) with a nil error and the fields of its first
\* item.
C10_FirstItemReturned ==
    (InWAFPolicyDetails /\ Parsed /\ Len(policiesResp) >= 1)
        => /\ ret.done
           /\ ret.err = ""
           /\ DOMAIN ret.val = WAFPolicyFields
           /\ \A f \in WAFPolicyFields : ret.val[f] = policiesResp[1][f]

\* C10 witness: two different items, the first is returned
C10_Witness ==
    /\ InWAFPolicyDetails /\ Parsed /\ Len(policiesResp) = 2
    /\ policiesResp[1] # policiesResp[2]
    /\ ret.done /\ ret.val.Name = policiesResp[1].Name

---------------------------------------------------------------------------
(* Claims about executeOperation, under Spec.                              *)

\* policy before virtual server before pool before node
Priority(c) ==
    CASE c = "policy" -> 1 [] c = "vs" -> 2 [] c = "pool" -> 3 [] c = "node" -> 4

\* the category of highest priority among cs
Highest(cs) == CHOOSE c \in cs : \A d \in cs : Priority(c) <= Priority(d)

BranchCategory(b) ==
    CASE b \in {"policy_list", "policy_detail"} -> "policy"
      [] OTHER -> b

\* the operations of the device client that read objects of category c
OperationsOf(c) ==
    CASE c = "policy" -> {"GetWAFPolicies", "GetWAFPolicyDetails"}
      [] c = "vs" -> {"GetVirtualServers"}
      [] c = "pool" -> {"GetPools"}
      [] c = "node" -> {"GetNodes"}
      [] OTHER -> {}

\* the category of the objects a request reads
RequestCategory(r) ==
    IF Contains(r.URL, "mgmt/tm/asm/policies") THEN "policy"
    ELSE IF Contains(r.URL, "mgmt/tm/ltm/virtual") THEN "vs"
    ELSE IF Contains(r.URL, "mgmt/tm/ltm/pool") THEN "pool"
    ELSE IF Contains(r.URL, "mgmt/tm/ltm/node") THEN "node"
    ELSE "other"

\* executeOperation has chosen its branch for the current query
Routed == qpc \in {"wait", "done"} /\ branch # "none"

\* C1: when the description holds keywords of two or more categories, the
\* branch taken is that of the matching category of highest priority
\* (policy, virtual server, pool, node), the only operation called is one of
\* that category, and every request sent to the device for the query reads
\* objects of that category.
C1_HighestPriorityWins ==
    (Routed /\ Cardinality(matched) >= 2) =>
        /\ BranchCategory(branch) = Highest(matched)
        /\ \A i \in DOMAIN clientCalls :
                clientCalls[i] \in OperationsOf(Highest(matched))
        /\ op \in OperationsOf(Highest(matched)) \cup {"none"}
        /\ \A i \in DOMAIN requests :
                RequestCategory(requests[i]) = Highest(matched)

\* a description of pool and node keywords has been answered from the pools
C1_Witness ==
    /\ qpc = "done" /\ matched = {"pool", "node"} /\ branch = "pool"
    /\ clientCalls = <<"GetPools">> /\ qret.err = ""

\* the query gives the detail path no policy name
NoPolicyName == branch = "policy_detail" /\ ExtractPolicyName(query) = ""

\* what a description without any keyword is answered with
HelpReturned ==
    /\ branch = "help" /\ clientCalls = <<>> /\ op = "none" /\ requests = <<>>
    /\ qret = Return("", HelpText)

\* C2 as stated: a description with keywords of one category only has
\* exactly one operation of that category called (for policy keywords, a
\* fetch of the policies or of one policy), and a description without
\* keywords is answered with the help text, no device call and no error.
C2_OneCategoryOneFetch ==
    Routed =>
        /\ \A c \in Categories : matched = {c} =>
                /\ BranchCategory(branch) = c
                /\ Len(clientCalls) = 1 /\ clientCalls[1] \in OperationsOf(c)
        /\ matched = {} => HelpReturned

\* C2: a description with keywords of one category only takes the branch of
\* that category; one operation of that category is called, except on the
\* policy-detail path when the original query has no word to take the policy
\* name from: then nothing is called and the query fails with "could not
\* determine policy name from query".  A description without keywords is
\* answered with the help text, no device call and no error.
C2_OneCategoryOneBranch ==
    Routed =>
        /\ \A c \in Categories : matched = {c} =>
                /\ BranchCategory(branch) = c
                /\ IF NoPolicyName
                   THEN /\ clientCalls = <<>> /\ op = "none" /\ requests = <<>>
                        /\ qret = Return(OperationFailure(
                              "could not determine policy name from query"), <<>>)
                   ELSE /\ Len(clientCalls) = 1
                        /\ clientCalls[1] \in OperationsOf(c)
                        /\ qpc = "wait" => op = clientCalls[1]
        /\ matched = {} => HelpReturned

\* an empty line was described with policy keywords only and a detail word
C2_Witness ==
    /\ Routed /\ matched = {"policy"} /\ NoPolicyName /\ query = ""
    /\ mainPc = "query"

---------------------------------------------------------------------------
(* Claims about ProcessQuery and main, under Spec.                         *)

\* startup has succeeded: main is at the test command or in its loop
Started == mainPc \in {"test", "loop", "query", "crashed"}

\* C11 as stated: once startup has succeeded, whatever the model call and
\* the device calls answer, ProcessQuery and the read operations return to
\* their caller: nothing panics and the process is not ended by a failure.
C11_NothingCrashes ==
    Started => mainPc # "crashed" /\ qpc # "panic"

\* the generic message of a failed device operation
IssueText == "I understood your request about the BIG-IP configuration, but encountered an issue"

HasPrefix(s, prefix) ==
    Len(s) >= Len(prefix) /\ SubSeq(s, 1, Len(prefix)) = prefix

\* the step in which a failed device operation returns through
\* executeOperation and ProcessQuery
FailureReturns == qpc = "wait" /\ ret.done /\ ret.err # "" /\ qpc' = "done"

\* the device itself reported the error the operation failed with
DeviceFailed == lastReply = "error"

VirtualServersClasses ==
    {"unauthorized", "connection", "certificate", "no such host", "timeout"}

\* the words the policy-list branch replaces the client's error for
PolicyListClasses == {"not found", "unauthorized", "connection"}

ApologyText == "I apologize, but I'm having trouble understanding your request."

\* ProcessQuery has returned because the model call failed
ModelCallFailed == qpc = "done" /\ branch = "none"

\* C13: ProcessQuery calls the model once per query, before anything else;
\* when the call fails it returns the apology with the text of the call's
\* error in it, and no device operation is called and no request sent for
\* that query.
C13_ModelCalledOnce ==
    /\ llmCalls <= 1
    /\ qpc \in {"idle", "call"} => llmCalls = 0
    /\ qpc \in {"dispatch", "wait", "done", "panic"} => llmCalls = 1
    /\ ModelCallFailed =>
        /\ HasPrefix(qret.err, ApologyText)
        /\ \E e \in ModelErrors : Contains(qret.err, "OpenAI API error: " \o e)
        /\ qret.val = <<>>
        /\ clientCalls = <<>> /\ op = "none" /\ requests = <<>>

\* C13 witness: a query of the loop failed at the model call
C13_Witness ==
    /\ ModelCallFailed /\ mainPc = "query" /\ llmCalls = 1
    /\ Contains(qret.err, "context deadline exceeded")

\* a query of the loop has returned an error to main
QueryFailed == mainPc = "query" /\ qpc = "done" /\ qret.err # ""

\* C14: when a query of the loop returns an error, main prints the error
\* and is back at the read of the next line, with nothing of the failed
\* query left; and whenever main is at the read and input remains, a line
\* can be read and passed to ProcessQuery.
C14_LoopSurvivesErrors ==
    /\ [][QueryFailed =>
            /\ printed' = Printed("Error: ", qret.err)
            /\ mainPc' = "loop"
            /\ qpc' = "idle" /\ op' = "none"
            /\ stdinEOF' = stdinEOF]_vars
    /\ [](QueryFailed => ENABLED PrintResult)
    /\ []((mainPc = "loop" /\ ~stdinEOF)
            => ENABLED (ReadLine /\ mainPc' = "query" /\ qpc' = "call"))

\* C14 witness: the error of a failed device operation has been printed and
\* main is at the read again
C14_Witness ==
    /\ mainPc = "loop" /\ ~stdinEOF /\ qpc = "idle"
    /\ printed.kind = "Error: " /\ HasPrefix(printed.body, IssueText)

\* a step of the loop that has read the line "exit", white space aside
ReadsExit ==
    mainPc = "loop" /\ input' = "exit" /\ printed'.kind # "Error reading input: "

\* C15: the loop ends when the line read is "exit" after the trim of the
\* white space around it: that line is not passed to ProcessQuery, and once
\* it is read the model and the device are not called again.  Any other
\* line, "Exit" included, is passed to ProcessQuery.
C15_ExitEndsLoop ==
    /\ [][ReadsExit => mainPc' = "end" /\ UNCHANGED <<qvars, cvars, nvars>>]_vars
    /\ [](mainPc = "end" =>
            /\ input = "exit"
            /\ qpc = "idle" /\ llmCalls = 0 /\ op = "none" /\ requests = <<>>
            /\ ~ENABLED Next)
    /\ [](mainPc = "query" => query = input /\ query # "exit")
    /\ []((mainPc = "loop" /\ ~stdinEOF) =>
            /\ ENABLED (ReadLine /\ mainPc' = "end")
            /\ ENABLED (ReadLine /\ mainPc' = "query" /\ query' = "Exit"))

\* C15 witness: the prompt was printed, the line read was "exit" and the
\* loop has ended
C15_Witness ==
    /\ mainPc = "end" /\ input = "exit" /\ printed = Printed("You: ", <<>>)

\* nothing has been asked of the device or of the model
NothingAttempted ==
    /\ ctor = "none" /\ wpc = "idle" /\ probeCalls = 0
    /\ qpc = "idle" /\ llmCalls = 0 /\ op = "none" /\ requests = <<>>

\* C16: when one of BIGIP_HOST, BIGIP_USERNAME, BIGIP_PASSWORD,
\* OPENAI_API_KEY is absent or empty, LoadConfig returns no configuration
\* and the process stops with nothing asked of the device or of the model;
\* when all four are set, the configuration holds exactly those four values.
C16_LoadConfig ==
    /\ (\E n \in EnvNames : env[n] = "") =>
            /\ mainPc \in {"LoadConfig", "fatal"}
            /\ cfg = NoConfig
            /\ NothingAttempted
            /\ mainPc = "fatal" => ~ENABLED Next
    /\ ((\A n \in EnvNames : env[n] # "") /\ mainPc # "LoadConfig") =>
            /\ DOMAIN cfg = {"BigIPHost", "BigIPUsername", "BigIPPassword", "OpenAIKey"}
            /\ cfg.BigIPHost = env["BIGIP_HOST"]
            /\ cfg.BigIPUsername = env["BIGIP_USERNAME"]
            /\ cfg.BigIPPassword = env["BIGIP_PASSWORD"]
            /\ cfg.OpenAIKey = env["OPENAI_API_KEY"]
    /\ mainPc = "LoadConfig" => NothingAttempted

\* C16 witness: only the model's key is missing and the process has stopped
C16_Witness ==
    /\ mainPc = "fatal" /\ env["OPENAI_API_KEY"] = ""
    /\ \A n \in EnvNames \ {"OPENAI_API_KEY"} : env[n] # ""

---------------------------------------------------------------------------
(* The formatters called on their own, with any list a caller may hold:    *)
(* ret is what the caller hands over, branch names the formatter, qret is  *)
(* what it returns.                                                        *)

\* the member maps a caller may hold: some names with a member list each
PoolMemberMaps ==
    UNION {[S -> MemberLists] : S \in SUBSET {p.Name : p \in DevicePools}}

InitFormat ==
    /\ mainPc = "format" /\ MainIdle /\ QueryIdle /\ ClientIdle
    /\ ctor = "none" /\ NewClientIdle
    /\ device \in DeviceConfigs
    /\ logged = <<>>

\* branch, argument and result of a formatter call
Formatted(name, arg, text) ==
    /\ mainPc = "format"
    /\ branch' = name
    /\ ret' = Return("", arg)
    /\ qret' = Return("", text)
    /\ UNCHANGED <<qpc, query, llmResponse, llmCalls, matched, clientCalls>>
    /\ UNCHANGED <<op, policyName, retry, lastErr, policiesResp, delays,
                   requests, lastReply, pools, poolList, poolMembers, memberFetch>>
    /\ UNCHANGED <<mvars, nvars>>
    /\ UNCHANGED device
    /\ UNCHANGED logged

CallFormatVirtualServers ==
    \E vs \in ListsOf(DeviceVirtualServers, MaxItems) :
        Formatted("vs", vs, FormatVirtualServers(vs))

CallFormatPools ==
    \E list \in ListsOf(DevicePools, MaxPools), members \in PoolMemberMaps :
        Formatted("pool", [pools |-> list, members |-> members],
                  FormatPools(list, members))

CallFormatNodes ==
    \E nodes \in ListsOf(DeviceNodes, MaxItems) :
        Formatted("node", nodes, FormatNodes(nodes))

CallFormatWAFPolicies ==
    \E policies \in ListsOf({ToWAFPolicy(p) : p \in DevicePolicies}, MaxItems) :
        Formatted("policy_list", policies, FormatWAFPolicies(policies))

CallFormatWAFPolicyDetails ==
    \E p \in DevicePolicies :
        Formatted("policy_detail", ToWAFPolicy(p),
                  FormatWAFPolicyDetails(ToWAFPolicy(p)))

CallFormatSignatureStatus ==
    \E signatures \in ListsOf(DeviceSignatures, MaxItems) :
        Formatted("signature", signatures, FormatSignatureStatus(signatures))

NextFormat ==
    \/ CallFormatVirtualServers
    \/ CallFormatPools
    \/ CallFormatNodes
    \/ CallFormatWAFPolicies
    \/ CallFormatWAFPolicyDetails
    \/ CallFormatSignatureStatus

SpecFormat == InitFormat /\ [][NextFormat]_vars

---------------------------------------------------------------------------
(* Claims about the formatters, under SpecFormat.                          *)

\* a formatter has been called with this list and without members
FormattedEmpty(name) ==
    /\ branch = name
    /\ IF name = "pool" THEN ret.val.pools = <<>> ELSE ret.val = <<>>

\* the line that opens the block of one entity
IsBlockHead(line) == HasPrefix(line, "[") /\ Contains(line, "Details:")

\* C17: each list formatter, called with an empty list, returns its fixed
\* text: the heading and the sentence that nothing is configured, the same
\* on every call, with no block of an entity and no error.
C17_EmptyListText ==
    /\ FormattedEmpty("vs") => qret.val =
            << "=== Virtual Servers (VIPs) ===",
               "No virtual servers are currently configured." >>
    /\ FormattedEmpty("pool") => qret.val =
            << "=== Server Pools ===",
               "No server pools are currently configured." >>
    /\ FormattedEmpty("node") => qret.val =
            << "=== Backend Nodes ===",
               "No backend nodes are currently configured." >>
    /\ FormattedEmpty("policy_list") =>
            /\ Len(qret.val) = 10
            /\ qret.val[1] = "=== WAF (Web Application Firewall) Policies ==="
            /\ qret.val[3] = "No WAF policies are currently configured on this BIG-IP system."
    /\ FormattedEmpty("signature") => qret.val =
            << "=== WAF Policy Signature Status ===",
               "Reference: iControl REST API v14.1.0, Chapter 7: ASM Signatures",
               Rule,
               "No signatures found for this policy." >>
    /\ \A name \in {"vs", "pool", "node", "policy_list", "signature"} :
            FormattedEmpty(name) =>
                /\ qret.err = ""
                /\ Len(qret.val) >= 2
                /\ \A k \in DOMAIN qret.val :
                        qret.val[k] # "" /\ ~IsBlockHead(qret.val[k])

\* C17 witness: pools formatted with no pool but with a member map at hand
C17_Witness ==
    /\ FormattedEmpty("pool") /\ DOMAIN ret.val.members # {}
    /\ qret.val[2] = "No server pools are currently configured."

---------------------------------------------------------------------------
(* Claims about the branches of executeOperation, under Spec.              *)

\* the line that opens the block of a virtual server
IsVirtualServerHead(line) == Contains(line, "Virtual Server Details:")
IsStatusLine(line) == HasPrefix(line, "Status:")
IsNameLine(line) == HasPrefix(line, "Name:")

VirtualServerHead(i) == "[" \o ToString(i) \o "] Virtual Server Details:"

\* the lines of text from the i-th of n heads up to the next head or the end
BlockOf(text, i, n) ==
    LET at(j) == CHOOSE k \in DOMAIN text : text[k] = VirtualServerHead(j)
    IN  SubSeq(text, at(i), IF i < n THEN at(i + 1) - 1 ELSE Len(text))

\* the virtual-server branch returns the servers the device reported
VirtualServersReturn ==
    /\ qpc = "wait" /\ branch = "vs" /\ ret.done /\ ret.err = ""
    /\ qpc' = "done"

\* C18: when the virtual-server branch returns the N servers the device
\* reported, the response has exactly N block heads, numbered 1..N; block i
\* names the i-th server and its one status line says Enabled if that
\* server's flag is set and Disabled if not; main prints that response.
C18_VirtualServerBlocks ==
    /\ [][VirtualServersReturn =>
            LET list == ret.val
                text == qret'.val
                n == Len(list)
            IN  /\ qret'.err = ""
                /\ SelectSeq(text, IsVirtualServerHead) =
                        [i \in 1..n |-> VirtualServerHead(i)]
                /\ \A i \in 1..n :
                    LET block == BlockOf(text, i, n)
                    IN  /\ SelectSeq(block, IsNameLine) =
                                <<"Name:        " \o list[i].Name>>
                        /\ SelectSeq(block, IsStatusLine) =
                                <<IF list[i].Enabled THEN "Status:      Enabled"
                                  ELSE "Status:      Disabled">>
                /\ SelectSeq(text, IsStatusLine) =
                        [i \in 1..n |-> IF list[i].Enabled THEN "Status:      Enabled"
                                        ELSE "Status:      Disabled"]]_vars
    /\ [][(qpc = "done" /\ branch = "vs" /\ qret.err = "" /\ printed' # printed)
            => printed' = Printed("BIG-IP: ", qret.val)]_vars

\* C18 witness: two servers were reported, a disabled one before an enabled
\* one, and the response shows them in that order
C18_Witness ==
    /\ qpc = "done" /\ branch = "vs" /\ qret.err = ""
    /\ SelectSeq(qret.val, IsStatusLine) =
            <<"Status:      Disabled", "Status:      Enabled">>
    /\ SelectSeq(qret.val, IsVirtualServerHead) =
            <<VirtualServerHead(1), VirtualServerHead(2)>>


DemoQuery == "show policy details for demo"

\* ProcessQuery(DemoQuery) is in the policy-detail branch, waiting for the
\* device client
DemoDetailsWait == query = DemoQuery /\ branch = "policy_detail" /\ qpc = "wait"

\* the line of the detail block that carries the policy's name
IsDetailNameLine(line) == HasPrefix(line, "* Name: ")

\* the device answered the latest request with the policies of that name
DeviceHasPolicy(name) ==
    /\ lastReply = "parsed" /\ Len(policiesResp) >= 1
    /\ \A k \in DOMAIN policiesResp : policiesResp[k].Name = name

\* the device answered the latest request with no policy
DeviceHasNoPolicy == lastReply = "parsed" /\ Len(policiesResp) = 0

\* C19: for the query 'show policy details for demo' in the policy-detail
\* branch, GetWAFPolicyDetails is called with the name demo and every
\* request filters on that name; when the device answers with its policy
\* named demo, the detail block returned has the Name demo; when it answers
\* with no policy, ProcessQuery returns an error saying that the policy
\* 'demo' was not found.
C19_DemoPolicyDetails ==
    /\ [](DemoDetailsWait =>
            /\ op = "GetWAFPolicyDetails" /\ policyName = "demo"
            /\ clientCalls = <<"GetWAFPolicyDetails">>
            /\ \A k \in DOMAIN requests :
                requests[k] = GetRequest("mgmt/tm/asm/policies?$filter=name+eq+demo"))
    /\ [][(qpc = "dispatch" /\ query = DemoQuery /\ branch' = "policy_detail")
            => DemoDetailsWait']_vars
    /\ [][(DemoDetailsWait /\ qpc' = "done") =>
            /\ DeviceHasPolicy("demo") =>
                /\ qret'.err = ""
                /\ SelectSeq(qret'.val, IsDetailNameLine) = <<"* Name: demo">>
            /\ DeviceHasNoPolicy =>
                /\ qret'.val = <<>>
                /\ Contains(qret'.err, "WAF policy 'demo' not found")]_vars

\* C19 witness: the detail block of demo has been returned for the query
C19_Witness ==
    /\ query = DemoQuery /\ branch = "policy_detail" /\ qpc = "done"
    /\ qret.err = "" /\ SelectSeq(qret.val, IsDetailNameLine) = <<"* Name: demo">>

\* a text with a character that is not white space
HasToken(s) == \E k \in 1..Len(s) : ~IsSpace(SubSeq(s, k, k))

\* t is the last run of characters of s between white space
IsLastToken(t, s) ==
    /\ HasToken(t) /\ \A k \in 1..Len(t) : ~IsSpace(SubSeq(t, k, k))
    /\ \E a \in 1..Len(s) :
        LET b == a + Len(t) - 1
        IN  /\ b <= Len(s) /\ SubSeq(s, a, b) = t
            /\ ~HasToken(SubSeq(s, b + 1, Len(s)))
            /\ a = 1 \/ IsSpace(SubSeq(s, a - 1, a - 1))

\* name is the policy name the query q stands for
NameOfQuery(name, q) ==
    LET l == ToLower(q)
    IN  IF Contains(l, "demo") THEN name = "demo"
        ELSE IF Contains(l, "vs_waf") THEN name = "VS_WAF"
        ELSE IsLastToken(name, l)

\* C20: in the policy-detail branch of a query with a token, the device
\* client is called with demo if the lower-cased query contains demo, else
\* with VS_WAF if it contains vs_waf, else with the last token of the
\* lower-cased query, whatever the model's description; for a query with no
\* token the branch returns the could-not-determine-policy-name error and
\* the device client is not called.
C20_PolicyNameFromQuery ==
    /\ [][(qpc = "dispatch" /\ branch' = "policy_detail" /\ HasToken(query)) =>
            /\ qpc' = "wait" /\ op' = "GetWAFPolicyDetails" /\ ~ret'.done
            /\ NameOfQuery(policyName', query)]_vars
    /\ []((branch = "policy_detail" /\ qpc = "wait") =>
            /\ NameOfQuery(policyName, query)
            /\ clientCalls = <<"GetWAFPolicyDetails">>)
    /\ []((branch = "policy_detail" /\ ~HasToken(query)) =>
            /\ qpc = "done" /\ qret.val = <<>>
            /\ Contains(qret.err, "could not determine policy name from query")
            /\ clientCalls = <<>> /\ op = "none" /\ requests = <<>>)

\* C20 witness: the last token, lower-cased, of a query that names neither
\* demo nor vs_waf
C20_Witness ==
    /\ query = "describe policy Prod" /\ branch = "policy_detail"
    /\ qpc = "wait" /\ policyName = "prod"

\* executeOperation takes the security-policy branch in this step
TakesPolicyBranch ==
    qpc = "dispatch" /\ branch' \in {"policy_list", "policy_detail"}

\* the description has the word policy and a word that asks for details
AsksForPolicyDetails(description) ==
    LET d == ToLower(description)
    IN  /\ \E w \in {"details", "show", "get"} : Contains(d, w)
        /\ Contains(d, "policy")

\* C21: in the security-policy branch the detail path is taken exactly when
\* the lower-cased description has 'policy' and one of 'details', 'show',
\* 'get'; otherwise GetWAFPolicies is called; no query calls both
\* GetWAFPolicyDetails and GetWAFPolicies.
C21_DetailOrList ==
    /\ [][TakesPolicyBranch =>
            /\ branch' = "policy_detail" <=> AsksForPolicyDetails(llmResponse)
            /\ branch' = "policy_list" =>
                    clientCalls' = <<"GetWAFPolicies">> /\ op' = "GetWAFPolicies"
            /\ branch' = "policy_detail" =>
                    /\ clientCalls' \in {<<>>, <<"GetWAFPolicyDetails">>}
                    /\ op' \in {"none", "GetWAFPolicyDetails"}]_vars
    /\ [](branch = "policy_list" =>
            clientCalls = <<"GetWAFPolicies">> /\ op \in {"none", "GetWAFPolicies"})
    /\ [](branch = "policy_detail" =>
            /\ clientCalls \in {<<>>, <<"GetWAFPolicyDetails">>}
            /\ op \in {"none", "GetWAFPolicyDetails"})
    /\ [][(qpc \in {"wait", "done"}) =>
            clientCalls' \in {clientCalls, <<>>}]_vars

\* C21 witness: the list fetch is under way for a query whose own words ask
\* for details: the description decides, not the query
C21_Witness ==
    /\ branch = "policy_list" /\ qpc = "wait" /\ op = "GetWAFPolicies"
    /\ query = "show policy details for demo"

---------------------------------------------------------------------------
(* Claims about the requests to the device, under SpecClient.              *)

\* the URLs the operations and the probe request
RequestURLs ==
    { "mgmt/tm/ltm/virtual", "mgmt/tm/ltm/pool", "mgmt/tm/ltm/node",
      "mgmt/tm/asm/policies", "mgmt/tm/asm/signature-statuses" }
    \cup {"mgmt/tm/ltm/pool/" \o p.Name \o "/members" : p \in DevicePools}
    \cup {"mgmt/tm/asm/policies?$filter=name+eq+" \o n : n \in PolicyNames \ {""}}

\* a request was issued in this step: by an operation, or by the probe
IssuesRequest ==
    \/ Len(requests') > Len(requests)
    \/ probeCalls' > probeCalls

\* C22: every request of the probe and of the operations (virtual servers,
\* pools, pool members, nodes, policy list, policy detail, signature
\* statuses) is a GET, and the configuration of the device stays as it was
\* found, through every call, retry and repeated probe.
C22_OnlyReads ==
    /\ [](\A k \in DOMAIN requests :
            requests[k].Method = "GET" /\ requests[k].URL \in RequestURLs)
    /\ [](device \in DeviceConfigs)
    /\ [][device' = device]_vars
    /\ [][IssuesRequest => device' = device]_vars

\* C22 witness: the third attempt of the policy list has been made, after
\* two retries
C22_Witness ==
    /\ op = "GetWAFPolicies" /\ Len(requests) = maxRetries /\ ret.done
    /\ device \in DeviceConfigs

---------------------------------------------------------------------------
(* Claims about the order of events of a query, under Spec.                *)

\* the steps of a query
ModelIsCalled == llmCalls' > llmCalls
OperationIsCalled == Len(clientCalls') > Len(clientCalls)
RequestIsIssued == Len(requests') > Len(requests)
ResponseIsFormatted == ~qret.done /\ qret'.done /\ qret'.err = ""
ResultIsPrinted == mainPc \in {"test", "query"} /\ printed' # printed
LineIsRead == mainPc = "loop" /\ input' # input
QueryBegins == qpc # "call" /\ qpc' = "call"

\* C23: a query is the model call, then at most one device operation with
\* all its requests, then the formatting, then the print, in this order,
\* and a line is read, and the next query begun, only when the result or
\* the error of the previous one has been printed and nothing of it is
\* still in progress.
C23_OneQueryAtATime ==
    /\ [][ModelIsCalled =>
            qpc = "call" /\ llmCalls = 0 /\ clientCalls = <<>> /\ op = "none"]_vars
    /\ [][OperationIsCalled =>
            /\ qpc = "dispatch" /\ llmCalls = 1 /\ clientCalls = <<>>
            /\ op = "none" /\ op' = Head(clientCalls') /\ ~qret'.done]_vars
    /\ [][RequestIsIssued =>
            /\ qpc = "wait" /\ qpc' = "wait" /\ llmCalls = 1
            /\ clientCalls = <<op>> /\ ~qret'.done]_vars
    /\ [][ResponseIsFormatted =>
            /\ llmCalls = 1 /\ op' = "none" /\ qpc' = "done"
            /\ qpc = "wait" => ret.done /\ ret.err = ""]_vars
    /\ [][ResultIsPrinted =>
            /\ qpc = "done" /\ qret.done /\ op = "none"
            /\ printed'.body = IF qret.err # "" THEN qret.err ELSE qret.val
            /\ qpc' = "idle" /\ mainPc' = "loop"]_vars
    /\ [][LineIsRead => qpc = "idle" /\ op = "none" /\ ~qret.done]_vars
    /\ [][QueryBegins =>
            /\ qpc = "idle" /\ op = "none" /\ mainPc \in {"NewClient", "loop"}
            /\ llmCalls' = 0 /\ clientCalls' = <<>>]_vars
    /\ [](mainPc = "loop" => qpc = "idle" /\ op = "none")
    /\ [](qpc = "done" => op = "none" /\ Len(clientCalls) <= 1)
    /\ [](op # "none" => qpc = "wait" /\ clientCalls = <<op>>)

\* C23 witness: a query of the loop is at the second request of its device
\* operation, after the test command was resolved and its line was read
C23_Witness ==
    /\ mainPc = "query" /\ qpc = "wait" /\ op = "GetPools" /\ Len(requests) = 2
    /\ printed = Printed("You: ", <<>>)

---------------------------------------------------------------------------
(* Claims about the log lines of the policy branches, under Spec.          *)

\* a policy branch hands the policies it fetched to its formatter
PolicyBranchFormats ==
    /\ qpc = "wait" /\ branch \in {"policy_list", "policy_detail"}
    /\ ret.done /\ ret.err = "" /\ qpc' = "done"

\* the policies the branch fetched, as a set
FetchedPolicies ==
    IF branch = "policy_detail" THEN {ret.val}
    ELSE {ret.val[k] : k \in DOMAIN ret.val}

\* the fields logged for the policy of this name once the step is taken
LoggedFieldsAfter(name) ==
    UNION {logged'[k].fields : k \in {j \in DOMAIN logged' : logged'[j].policy = name}}

SummaryFields == {"Name", "VirtualServers", "Active", "EnforcementMode"}

\* C24 as stated: in the list branch and in the detail branch, the name,
\* the virtual-server associations, the active flag and the enforcement
\* mode of each fetched policy are logged by the time the formatter is
\* invoked.
C24_SummaryLoggedInBothBranches ==
    [][PolicyBranchFormats =>
        \A p \in FetchedPolicies : SummaryFields \subseteq LoggedFieldsAfter(p.Name)]_vars

\* C24 amended: in the list branch the four fields of each fetched policy
\* are logged by the time the formatter is invoked; in the detail branch
\* the name, the ID, the type and the active flag of the fetched policy are
\* logged, its virtual-server associations and enforcement mode are not.
C24_LoggedBeforeFormatting ==
    [][PolicyBranchFormats =>
        /\ qret'.err = ""
        /\ branch = "policy_list" =>
            /\ qret'.val = FormatWAFPolicies(ret.val)
            /\ \A p \in FetchedPolicies :
                    SummaryFields \subseteq LoggedFieldsAfter(p.Name)
            /\ Len(logged') = 2 * Len(ret.val)
        /\ branch = "policy_detail" =>
            /\ qret'.val = FormatWAFPolicyDetails(ret.val)
            /\ LoggedFieldsAfter(ret.val.Name) = {"Name", "ID", "Type", "Active"}]_vars

\* C24 witness: two different policies were listed and logged, by the
\* client and by executeOperation
C24_Witness ==
    /\ branch = "policy_list" /\ qpc = "done" /\ qret.err = ""
    /\ Len(logged) = 4 /\ logged[1].policy # logged[2].policy
    /\ logged[4].fields = SummaryFields

---------------------------------------------------------------------------
(* Claims about the end of the retry loops, under SpecClient.              *)

\* none of the operation's requests was answered by a response that parsed:
\* a parsed response ends the loop, so it is the latest if there is one
NoAttemptParsed == lastReply # "parsed"

\* C25: GetWAFPolicies returns a nil error only when an attempt received a
\* response that parsed; when its third attempt has failed as the two
\* before it, by a request error or by a response that does not parse, it
\* returns an error and no list.
C25_NilErrorOnlyIfParsed ==
    /\ (InWAFPolicies /\ ret.done /\ ret.err = "") => ~NoAttemptParsed
    /\ (InWAFPolicies /\ NoAttemptParsed /\ Len(requests) = maxRetries)
            => ret.done /\ ret.err # "" /\ ret.val = <<>>

\* C26: GetWAFPolicyDetails returns the 'WAF policy ... not found' error only
\* when an attempt received a response that parsed and held no item; when
\* every attempt has failed, by a request error or by a response that does
\* not parse, it returns the 'failed to get WAF policy details' error.
C26_NotFoundOnlyIfParsedEmpty ==
    /\ (InWAFPolicyDetails /\ ret.done /\ HasPrefix(ret.err, "WAF policy '"))
            => Parsed /\ Len(policiesResp) = 0
    /\ (InWAFPolicyDetails /\ NoAttemptParsed /\ Len(requests) = maxRetries)
            => ret.done /\ HasPrefix(ret.err, "failed to get WAF policy details: ")

---------------------------------------------------------------------------
(* Claims about the read of standard input, under Spec.                    *)

\* the read of this step of the loop fails
ReadFails == mainPc = "loop" /\ printed'.kind = "Error reading input: "

\* C27: a failed read, the end of input included, leaves main in the loop:
\* the error is printed, nothing is passed to ProcessQuery, whatever data
\* came with the error, and the read is made again.  The loop ends only by
\* a line read without error that is "exit" once trimmed.  Once the input
\* is exhausted main stays in the loop for ever, reading again each time.
C27_ReadErrorsNeverEndLoop ==
    /\ [][ReadFails =>
            /\ mainPc' = "loop" /\ printed'.body \in ReadErrors
            /\ UNCHANGED <<qvars, cvars, nvars>>]_vars
    /\ [][(mainPc # "end" /\ mainPc' = "end") =>
            /\ mainPc = "loop" /\ ~stdinEOF /\ ~stdinEOF'
            /\ printed' = Printed("You: ", <<>>) /\ input' = "exit"]_vars
    /\ [](mainPc = "loop" => ENABLED ReadLine /\ ENABLED (ReadLine /\ ReadFails))
    /\ [](stdinEOF => mainPc = "loop" /\ ~ENABLED (Next /\ mainPc' # "loop"))
    /\ [][stdinEOF => stdinEOF' /\ mainPc' = "loop"]_vars

\* C27 witness: the input ended with an "exit" that no newline followed;
\* main is still in the loop
C27_Witness ==
    /\ mainPc = "loop" /\ stdinEOF /\ input = "exit"
    /\ printed = Printed("Error reading input: ", "EOF")

---------------------------------------------------------------------------
(* Claims about the probe goroutine, under SpecClientLive.                 *)

WorkerRuns == wpc \in {"incall", "incall2", "sleeping", "sendNil", "sendErr"}

\* the goroutine sends on connectionStatus in this step
WorkerSends ==
    wpc \in {"sendNil", "sendErr"} /\ wpc' = "done"

\* C28: the goroutine of the probe sends one result and no second; its send
\* finds the buffer of the channel empty and so completes with or without
\* a receiver; and a goroutine whose calls return ends, after three
\* attempts at most, even when the constructor has timed out before.
C28_WorkerSendsOnce ==
    /\ [][WorkerSends =>
            /\ connectionStatus = <<>> /\ Len(connectionStatus') = 1
            /\ UNCHANGED <<ctor, wretry, probeCalls>>]_vars
    /\ [][Len(connectionStatus') > Len(connectionStatus) => WorkerSends]_vars
    /\ [][wpc = "done" =>
            wpc' \in {"done", "idle"} /\ Len(connectionStatus') <= Len(connectionStatus)]_vars
    /\ [](wpc \in {"sendNil", "sendErr"} =>
            Len(connectionStatus) < chanCapacity /\ ENABLED WorkerSend)
    /\ [](WorkerRuns => wretry <= maxRetries)
    /\ [](wpc = "done" => wretry <= maxRetries /\ ctor # "none")
    /\ (WorkerRuns ~> wpc = "done")

\* C28 witness: the goroutine has sent its final error into the buffer
\* after the constructor had timed out; nobody will receive it
C28_Witness ==
    /\ ctor = "timeout" /\ wpc = "done" /\ wretry = maxRetries
    /\ Len(connectionStatus) = 1 /\ connectionStatus[1] # ""

---------------------------------------------------------------------------
(* Claims about the classification of request errors, under SpecClient.    *)

InRetryLoop == op \in {"GetWAFPolicies", "GetWAFPolicyDetails"}

\* the latest request of the operation failed with this error text
RequestFailed == InRetryLoop /\ lastReply = "error"

\* the text holds one of the status codes that are tested first
HasFatalCode(errStr) ==
    \E code \in {"401", "403", "404"} : Contains(ToLower(errStr), code)

HasRetriedText(errStr) ==
    \E text \in {"connection", "timeout"} : Contains(ToLower(errStr), text)

FailedToGet ==
    IF op = "GetWAFPolicies" THEN "failed to get WAF policies: "
    ELSE "failed to get WAF policy details: "

\* C29: in both retry loops a request error whose text holds 401, 403 or
\* 404 ends the call at once with the error, also when the text holds
\* 'connection' or 'timeout' as well; any other request error (409,
\* connection, certificate, timeout, unmatched) is followed by another
\* attempt while fewer than three were made, and ends the call with the
\* error at the third.
C29_CodesBeforeTexts ==
    /\ []((RequestFailed /\ HasFatalCode(lastErr)) =>
            /\ ret.done /\ ret.err = FailedToGet \o lastErr
            /\ ~ENABLED (WAFPoliciesAttempt \/ WAFPolicyDetailsAttempt))
    /\ [][(RequestFailed /\ HasFatalCode(lastErr)) => NoFurtherRequest]_vars
    /\ []((RequestFailed /\ ~HasFatalCode(lastErr)) =>
            IF Len(requests) < maxRetries
            THEN /\ ~ret.done /\ retry = Len(requests)
                 /\ ENABLED (WAFPoliciesAttempt \/ WAFPolicyDetailsAttempt)
            ELSE /\ ret.done /\ ret.err = FailedToGet \o lastErr
                 /\ Len(requests) = maxRetries)

\* C29 witness: a refused connection to port 4043, whose text holds 404 and
\* 'connection', has ended GetWAFPolicyDetails at its first attempt
C29_Witness ==
    /\ op = "GetWAFPolicyDetails" /\ lastReply = "error"
    /\ HasFatalCode(lastErr) /\ HasRetriedText(lastErr)
    /\ ret.done /\ Len(requests) = 1

---------------------------------------------------------------------------
(* Claims about GetPolicySignatureStatus, under SpecClient.                *)

\* GetPolicySignatureStatus(policyName) has returned
SignatureStatusReturned == op = "GetPolicySignatureStatus" /\ ret.done

\* C30: GetPolicySignatureStatus with an empty ID fails without issuing a
\* request, and with a non-empty ID a successful call returns the signature
\* statuses the device holds for the policy of that ID.
C30_StatusesOfThePolicy ==
    SignatureStatusReturned =>
        IF policyName = ""
        THEN ret.err = "policy ID cannot be empty" /\ requests = <<>>
        ELSE ret.err = "" => ret.val = device.signatures[policyName]

\* the part of C30 about the empty ID alone
C30_EmptyIDFailsWithoutRequest ==
    (SignatureStatusReturned /\ policyName = "") =>
        ret.err = "policy ID cannot be empty" /\ requests = <<>>

\* a successful call for one policy has returned a status of another policy
C30_ForeignStatusReturned ==
    /\ SignatureStatusReturned /\ policyName # "" /\ ret.err = ""
    /\ \E i \in 1..Len(ret.val) : ret.val[i].PolicyName # PolDemo.Name
    /\ policyName = PolDemo.ID

============================================================================
